---- MODULE Spec2Model ----
(***************************************************************************)
(* Routing core of Multy_agents_system: the two dispatcher variants        *)
(* (multi_agent_cloud.py: Ollama/cloud hybrid backend; multi_agent_system  *)
(* .py: OpenAI backend), their billing and technical responders and the    *)
(* hybrid fallback chain.                                                  *)
(*                                                                         *)
(* Text is a sequence of Unicode code points, so that `in`, lower(),       *)
(* upper(), strip(), split() and startswith() are computed as Python       *)
(* computes them.  A confidence is an integer number of hundredths         *)
(* (0.8 is 80).  A timestamp is the value of a logical clock.              *)
(***************************************************************************)
EXTENDS Integers, Sequences, FiniteSets, TLC

VARIABLES
  variant,               \* "cloud" (multi_agent_cloud.py) or "openai" (multi_agent_system.py)
  ai_client,             \* the backend handed to AgentDispatcher.__init__
  documents,             \* TechnicalAgentA.documents
  conversation_history,  \* AgentDispatcher.conversation_history
  refund_requests,       \* BillingAgentB.refund_requests
  invoices,              \* BillingAgentB.invoices
  clock,                 \* datetime.now(), as a logical clock
  op,                    \* the last operation and its input
  result,                \* what the last operation returned (or raised)
  calls,                 \* the methods the last operation invoked, in order
  main                   \* where the read loop of main is: "input" or "ended"

vars == << variant, ai_client, documents, conversation_history, refund_requests,
           invoices, clock, op, result, calls, main >>

-----------------------------------------------------------------------------
(* Python str primitives over code-point sequences.                        *)

\* c.lower() for one character: ASCII, the Cyrillic blocks U+0400..U+042F, U+0490
lower_char(c) ==
  IF c >= 65 /\ c <= 90 THEN c + 32
  ELSE IF c >= 1040 /\ c <= 1071 THEN c + 32
  ELSE IF c >= 1024 /\ c <= 1039 THEN c + 80
  ELSE IF c = 1168 THEN 1169
  ELSE c

\* c.upper() for one character
upper_char(c) ==
  IF c >= 97 /\ c <= 122 THEN c - 32
  ELSE IF c >= 1072 /\ c <= 1103 THEN c - 32
  ELSE IF c >= 1104 /\ c <= 1119 THEN c - 80
  ELSE IF c = 1169 THEN 1168
  ELSE c

\* s.lower()
lower(s) == [i \in 1..Len(s) |-> lower_char(s[i])]

\* s.upper()
upper(s) == [i \in 1..Len(s) |-> upper_char(s[i])]

\* c.isspace()
isspace(c) == c \in {9, 10, 11, 12, 13, 28, 29, 30, 31, 32, 133, 160}

\* s.strip()
strip(s) ==
  LET keep == {i \in 1..Len(s) : ~isspace(s[i])}
  IN  IF keep = {} THEN <<>>
      ELSE LET lo == CHOOSE i \in keep : \A j \in keep : i <= j
               hi == CHOOSE i \in keep : \A j \in keep : j <= i
           IN  SubSeq(s, lo, hi)

\* `sub in s` for strings
contains(sub, s) ==
  \E i \in 1..(Len(s) - Len(sub) + 1) : SubSeq(s, i, i + Len(sub) - 1) = sub

\* s.startswith(prefix)
startswith(s, prefix) ==
  Len(prefix) <= Len(s) /\ SubSeq(s, 1, Len(prefix)) = prefix

\* s.split(): the maximal runs of non-space characters, in order
split(s) ==
  LET starts == {i \in 1..Len(s) : ~isspace(s[i]) /\ (i = 1 \/ isspace(s[i - 1]))}
      end_of(i) == CHOOSE j \in i..Len(s) :
                     /\ \A k \in i..j : ~isspace(s[k])
                     /\ (j = Len(s) \/ isspace(s[j + 1]))
      nth(n) == CHOOSE i \in starts : Cardinality({k \in starts : k < i}) = n - 1
  IN  [n \in 1..Cardinality(starts) |-> SubSeq(s, nth(n), end_of(nth(n)))]

\* sum(1 for word in words if word in text)
count_in(words, text) ==
  Cardinality({i \in 1..Len(words) : contains(words[i], text)})

\* any(word in text for word in words)
any_in(words, text) == \E i \in 1..Len(words) : contains(words[i], text)

-----------------------------------------------------------------------------
(* Keyword lists of the source.                                            *)

\* tech_keywords of AgentDispatcher.classify_intent, by variant
tech_keywords ==
  [
    \* multi_agent_cloud.py:469 tech_keywords: 'компьютер', 'ноутбук', 'мережа', 'інтернет', 'wi-fi', 'ip', 'mac', 'драйвер', 'software', 'hardware'
    cloud |->
      << <<1082, 1086, 1084, 1087, 1100, 1102, 1090, 1077, 1088>>,
         <<1085, 1086, 1091, 1090, 1073, 1091, 1082>>,
         <<1084, 1077, 1088, 1077, 1078, 1072>>,
         <<1110, 1085, 1090, 1077, 1088, 1085, 1077, 1090>>,
         <<119, 105, 45, 102, 105>>,
         <<105, 112>>,
         <<109, 97, 99>>,
         <<1076, 1088, 1072, 1081, 1074, 1077, 1088>>,
         <<115, 111, 102, 116, 119, 97, 114, 101>>,
         <<104, 97, 114, 100, 119, 97, 114, 101>> >>,
    \* multi_agent_system.py:878 tech_keywords: 'компьютер', 'ноутбук', 'мережа', 'інтернет', 'wi-fi', 'ip', 'mac', 'драйвер', 'програмне', 'апаратне', 'технічний', 'налаштування', 'підключення', "з'єднання", 'сервер', 'роутер', 'модем', 'кабель', 'computer', 'laptop', 'network', 'internet', 'wifi', 'driver', 'software', 'hardware', 'technical', 'setup', 'configure'
    openai |->
      << <<1082, 1086, 1084, 1087, 1100, 1102, 1090, 1077, 1088>>,
         <<1085, 1086, 1091, 1090, 1073, 1091, 1082>>,
         <<1084, 1077, 1088, 1077, 1078, 1072>>,
         <<1110, 1085, 1090, 1077, 1088, 1085, 1077, 1090>>,
         <<119, 105, 45, 102, 105>>,
         <<105, 112>>,
         <<109, 97, 99>>,
         <<1076, 1088, 1072, 1081, 1074, 1077, 1088>>,
         <<1087, 1088, 1086, 1075, 1088, 1072, 1084, 1085, 1077>>,
         <<1072, 1087, 1072, 1088, 1072, 1090, 1085, 1077>>,
         <<1090, 1077, 1093, 1085, 1110, 1095, 1085, 1080, 1081>>,
         <<1085, 1072, 1083, 1072, 1096, 1090, 1091, 1074, 1072, 1085, 1085, 1103>>,
         <<1087, 1110, 1076, 1082, 1083, 1102, 1095, 1077, 1085, 1085, 1103>>,
         <<1079, 39, 1108, 1076, 1085, 1072, 1085, 1085, 1103>>,
         <<1089, 1077, 1088, 1074, 1077, 1088>>,
         <<1088, 1086, 1091, 1090, 1077, 1088>>,
         <<1084, 1086, 1076, 1077, 1084>>,
         <<1082, 1072, 1073, 1077, 1083, 1100>>,
         <<99, 111, 109, 112, 117, 116, 101, 114>>,
         <<108, 97, 112, 116, 111, 112>>,
         <<110, 101, 116, 119, 111, 114, 107>>,
         <<105, 110, 116, 101, 114, 110, 101, 116>>,
         <<119, 105, 102, 105>>,
         <<100, 114, 105, 118, 101, 114>>,
         <<115, 111, 102, 116, 119, 97, 114, 101>>,
         <<104, 97, 114, 100, 119, 97, 114, 101>>,
         <<116, 101, 99, 104, 110, 105, 99, 97, 108>>,
         <<115, 101, 116, 117, 112>>,
         <<99, 111, 110, 102, 105, 103, 117, 114, 101>> >> ]

\* billing_keywords of AgentDispatcher.classify_intent, by variant
billing_keywords ==
  [
    \* multi_agent_cloud.py:471 billing_keywords: 'рахунок', 'інвойс', 'оплата', 'відшкодування', 'рефанд', 'гроші', 'кошти', 'ціна'
    cloud |->
      << <<1088, 1072, 1093, 1091, 1085, 1086, 1082>>,
         <<1110, 1085, 1074, 1086, 1081, 1089>>,
         <<1086, 1087, 1083, 1072, 1090, 1072>>,
         <<1074, 1110, 1076, 1096, 1082, 1086, 1076, 1091, 1074, 1072, 1085, 1085, 1103>>,
         <<1088, 1077, 1092, 1072, 1085, 1076>>,
         <<1075, 1088, 1086, 1096, 1110>>,
         <<1082, 1086, 1096, 1090, 1080>>,
         <<1094, 1110, 1085, 1072>> >>,
    \* multi_agent_system.py:871 billing_keywords: 'рахунок', 'інвойс', 'оплата', 'платіж', 'відшкодування', 'рефанд', 'повернення', 'гроші', 'кошти', 'ціна', 'вартість', 'тариф', 'план', 'оплатити', 'заплатити', 'bill', 'invoice', 'payment', 'refund', 'money', 'cost', 'price', 'fee', 'комісія', 'перерахування'
    openai |->
      << <<1088, 1072, 1093, 1091, 1085, 1086, 1082>>,
         <<1110, 1085, 1074, 1086, 1081, 1089>>,
         <<1086, 1087, 1083, 1072, 1090, 1072>>,
         <<1087, 1083, 1072, 1090, 1110, 1078>>,
         <<1074, 1110, 1076, 1096, 1082, 1086, 1076, 1091, 1074, 1072, 1085, 1085, 1103>>,
         <<1088, 1077, 1092, 1072, 1085, 1076>>,
         <<1087, 1086, 1074, 1077, 1088, 1085, 1077, 1085, 1085, 1103>>,
         <<1075, 1088, 1086, 1096, 1110>>,
         <<1082, 1086, 1096, 1090, 1080>>,
         <<1094, 1110, 1085, 1072>>,
         <<1074, 1072, 1088, 1090, 1110, 1089, 1090, 1100>>,
         <<1090, 1072, 1088, 1080, 1092>>,
         <<1087, 1083, 1072, 1085>>,
         <<1086, 1087, 1083, 1072, 1090, 1080, 1090, 1080>>,
         <<1079, 1072, 1087, 1083, 1072, 1090, 1080, 1090, 1080>>,
         <<98, 105, 108, 108>>,
         <<105, 110, 118, 111, 105, 99, 101>>,
         <<112, 97, 121, 109, 101, 110, 116>>,
         <<114, 101, 102, 117, 110, 100>>,
         <<109, 111, 110, 101, 121>>,
         <<99, 111, 115, 116>>,
         <<112, 114, 105, 99, 101>>,
         <<102, 101, 101>>,
         <<1082, 1086, 1084, 1110, 1089, 1110, 1103>>,
         <<1087, 1077, 1088, 1077, 1088, 1072, 1093, 1091, 1074, 1072, 1085, 1085, 1103>> >> ]

\* the word lists of BillingAgentB._try_structured_handling, by group
structured_words ==
  [
    \* multi_agent_system.py:675, multi_agent_cloud.py:393: 'відшкодування', 'рефанд', 'повернення', 'refund'
    refund |->
      << <<1074, 1110, 1076, 1096, 1082, 1086, 1076, 1091, 1074, 1072, 1085, 1085, 1103>>,
         <<1088, 1077, 1092, 1072, 1085, 1076>>,
         <<1087, 1086, 1074, 1077, 1088, 1085, 1077, 1085, 1085, 1103>>,
         <<114, 101, 102, 117, 110, 100>> >>,
    \* multi_agent_system.py:677, multi_agent_cloud.py:395: 'рахунок', 'інвойс', 'invoice', 'bill'
    invoice |->
      << <<1088, 1072, 1093, 1091, 1085, 1086, 1082>>,
         <<1110, 1085, 1074, 1086, 1081, 1089>>,
         <<105, 110, 118, 111, 105, 99, 101>>,
         <<98, 105, 108, 108>> >>,
    \* multi_agent_system.py:679, multi_agent_cloud.py:397: 'політика', 'умови', 'терміни', 'policy'
    policy |->
      << <<1087, 1086, 1083, 1110, 1090, 1080, 1082, 1072>>,
         <<1091, 1084, 1086, 1074, 1080>>,
         <<1090, 1077, 1088, 1084, 1110, 1085, 1080>>,
         <<112, 111, 108, 105, 99, 121>> >>,
    \* multi_agent_system.py:681: 'статус', 'status', 'перевірити'
    status |->
      << <<1089, 1090, 1072, 1090, 1091, 1089>>,
         <<115, 116, 97, 116, 117, 115>>,
         <<1087, 1077, 1088, 1077, 1074, 1110, 1088, 1080, 1090, 1080>> >> ]

\* multi_agent_cloud.py:170 the keys of FastLocalClient.responses, in insertion order: 'ip', 'wifi', 'компьютер', 'мережа', 'драйвер', 'рахунок', 'відшкодування'
response_keys ==
  << <<105, 112>>,
     <<119, 105, 102, 105>>,
     <<1082, 1086, 1084, 1087, 1100, 1102, 1090, 1077, 1088>>,
     <<1084, 1077, 1088, 1077, 1078, 1072>>,
     <<1076, 1088, 1072, 1081, 1074, 1077, 1088>>,
     <<1088, 1072, 1093, 1091, 1085, 1086, 1082>>,
     <<1074, 1110, 1076, 1096, 1082, 1086, 1076, 1091, 1074, 1072, 1085, 1085, 1103>> >>

\* multi_agent_cloud.py:203 tech_words: 'ip', 'wifi', 'network', 'computer', 'драйвер', 'мереж', 'компьютер'
tech_words ==
  << <<105, 112>>,
     <<119, 105, 102, 105>>,
     <<110, 101, 116, 119, 111, 114, 107>>,
     <<99, 111, 109, 112, 117, 116, 101, 114>>,
     <<1076, 1088, 1072, 1081, 1074, 1077, 1088>>,
     <<1084, 1077, 1088, 1077, 1078>>,
     <<1082, 1086, 1084, 1087, 1100, 1102, 1090, 1077, 1088>> >>

\* multi_agent_cloud.py:204 billing_words: 'рахунок', 'відшкодування', 'оплата', 'invoice', 'payment', 'refund'
billing_words ==
  << <<1088, 1072, 1093, 1091, 1085, 1086, 1082>>,
     <<1074, 1110, 1076, 1096, 1082, 1086, 1076, 1091, 1074, 1072, 1085, 1085, 1103>>,
     <<1086, 1087, 1083, 1072, 1090, 1072>>,
     <<105, 110, 118, 111, 105, 99, 101>>,
     <<112, 97, 121, 109, 101, 110, 116>>,
     <<114, 101, 102, 117, 110, 100>> >>

\* multi_agent_system.py:930: 'technical', 'billing'
valid_intents ==
  << <<116, 101, 99, 104, 110, 105, 99, 97, 108>>,
     <<98, 105, 108, 108, 105, 110, 103>> >>
-----------------------------------------------------------------------------
(* Texts: questions, backend answers, model names, documents.               *)

\* the messages the model feeds to the dispatchers
msg ==
  [
    \* ''
    empty |-> <<>>,
    \* '   '
    blank |-> <<32, 32, 32>>,
    \* 'рахунок оплата'
    rahunok_oplata |-> <<1088, 1072, 1093, 1091, 1085, 1086, 1082, 32, 1086, 1087, 1083,
        1072, 1090, 1072>>,
    \* 'відшкодування експрес'
    refund_express |-> <<1074, 1110, 1076, 1096, 1082, 1086, 1076, 1091, 1074, 1072, 1085,
        1085, 1103, 32, 1077, 1082, 1089, 1087, 1088, 1077, 1089>>,
    \* 'Рахунок і відшкодування'
    refund_invoice |-> <<1056, 1072, 1093, 1091, 1085, 1086, 1082, 32, 1110, 32, 1074, 1110,
        1076, 1096, 1082, 1086, 1076, 1091, 1074, 1072, 1085, 1085, 1103>>,
    \* 'Що таке Wi-Fi?'
    wifi_question |-> <<1065, 1086, 32, 1090, 1072, 1082, 1077, 32, 87, 105, 45, 70, 105,
        63>>,
    \* 'Що таке IP-адреса?'
    ip_question |-> <<1065, 1086, 32, 1090, 1072, 1082, 1077, 32, 73, 80, 45, 1072, 1076,
        1088, 1077, 1089, 1072, 63>>,
    \* 'network setup'
    network |-> <<110, 101, 116, 119, 111, 114, 107, 32, 115, 101, 116, 117, 112>>,
    \* 'оплата'
    oplata |-> <<1086, 1087, 1083, 1072, 1090, 1072>>,
    \* 'привіт'
    hello |-> <<1087, 1088, 1080, 1074, 1110, 1090>>,
    \* 'рахунок за ноутбук'
    invoice_laptop |-> <<1088, 1072, 1093, 1091, 1085, 1086, 1082, 32, 1079, 1072, 32, 1085,
        1086, 1091, 1090, 1073, 1091, 1082>>,
    \* 'рахунок оплата інтернет'
    billing2_tech1 |-> <<1088, 1072, 1093, 1091, 1085, 1086, 1082, 32, 1086, 1087, 1083,
        1072, 1090, 1072, 32, 1110, 1085, 1090, 1077, 1088, 1085, 1077, 1090>>,
    \* 'мережа інтернет оплата'
    tech2_billing1 |-> <<1084, 1077, 1088, 1077, 1078, 1072, 32, 1110, 1085, 1090, 1077,
        1088, 1085, 1077, 1090, 32, 1086, 1087, 1083, 1072, 1090, 1072>>,
    \* 'статус політика'
    status_policy |-> <<1089, 1090, 1072, 1090, 1091, 1089, 32, 1087, 1086, 1083, 1110,
        1090, 1080, 1082, 1072>>,
    \* 'політика'
    policy |-> <<1087, 1086, 1083, 1110, 1090, 1080, 1082, 1072>>,
    \* 'статус'
    status |-> <<1089, 1090, 1072, 1090, 1091, 1089>>,
    \* 'статус відшкодування'
    status_refund |-> <<1089, 1090, 1072, 1090, 1091, 1089, 32, 1074, 1110, 1076, 1096,
        1082, 1086, 1076, 1091, 1074, 1072, 1085, 1085, 1103>>,
    \* 'як скинути пароль'
    password |-> <<1103, 1082, 32, 1089, 1082, 1080, 1085, 1091, 1090, 1080, 32, 1087, 1072,
        1088, 1086, 1083, 1100>>,
    \* 'статус ref-0a1b2c3d'
    status_ref |-> <<1089, 1090, 1072, 1090, 1091, 1089, 32, 114, 101, 102, 45, 48, 97, 49,
        98, 50, 99, 51, 100>>,
    \* 'Відшкодування ПРЕМІУМ експрес'
    refund_premium |-> <<1042, 1110, 1076, 1096, 1082, 1086, 1076, 1091, 1074, 1072, 1085,
        1085, 1103, 32, 1055, 1056, 1045, 1052, 1030, 1059, 1052, 32, 1077, 1082, 1089,
        1087, 1088, 1077, 1089>>,
    \* 'рефанд терміново'
    refund_urgent |-> <<1088, 1077, 1092, 1072, 1085, 1076, 32, 1090, 1077, 1088, 1084,
        1110, 1085, 1086, 1074, 1086>>,
    \* 'статус inv-0a1b2c'
    status_inv |-> <<1089, 1090, 1072, 1090, 1091, 1089, 32, 105, 110, 118, 45, 48, 97, 49,
        98, 50, 99>> ]

\* what the OpenAI backend can answer; error_text is the string
\* OpenAIClient.generate_response returns when the call raises (str(e) empty)
gpt ==
  [
    \* 'technical'
    technical |-> <<116, 101, 99, 104, 110, 105, 99, 97, 108>>,
    \* ' Billing\n'
    billing_cased |-> <<32, 66, 105, 108, 108, 105, 110, 103, 10>>,
    \* 'technical.'
    unrecognized |-> <<116, 101, 99, 104, 110, 105, 99, 97, 108, 46>>,
    \* 'Wi-Fi це бездротова мережа'
    answer |-> <<87, 105, 45, 70, 105, 32, 1094, 1077, 32, 1073, 1077, 1079, 1076, 1088,
        1086, 1090, 1086, 1074, 1072, 32, 1084, 1077, 1088, 1077, 1078, 1072>>,
    \* "❌ Помилка з'єднання з ChatGPT: "
    error_text |-> <<10060, 32, 1055, 1086, 1084, 1080, 1083, 1082, 1072, 32, 1079, 39,
        1108, 1076, 1085, 1072, 1085, 1085, 1103, 32, 1079, 32, 67, 104, 97, 116, 71, 80,
        84, 58, 32>> ]

\* the response field POST /api/generate can carry
model_answer ==
  [
    \* 'Wi-Fi це бездротова мережа'
    plain |-> <<87, 105, 45, 70, 105, 32, 1094, 1077, 32, 1073, 1077, 1079, 1076, 1088,
        1086, 1090, 1086, 1074, 1072, 32, 1084, 1077, 1088, 1077, 1078, 1072>>,
    \* '  ok \n'
    padded |-> <<32, 32, 111, 107, 32, 10>>,
    \* '❌ не знаю'
    cross |-> <<10060, 32, 1085, 1077, 32, 1079, 1085, 1072, 1102>>,
    \* ' \n'
    blank |-> <<32, 10>> ]

\* what uuid.uuid4().hex can begin with
uuid_hex ==
  [
    \* '0a1b2c3d'
    first |-> <<48, 97, 49, 98, 50, 99, 51, 100>>,
    \* 'ffffffff'
    second |-> <<102, 102, 102, 102, 102, 102, 102, 102>> ]

\* the words and prefixes of handle_refund_request and handle_invoice_request
billing_text ==
  [
    \* 'преміум'
    premium |-> <<1087, 1088, 1077, 1084, 1110, 1091, 1084>>,
    \* 'експрес'
    express |-> <<1077, 1082, 1089, 1087, 1088, 1077, 1089>>,
    \* 'терміново'
    urgent |-> <<1090, 1077, 1088, 1084, 1110, 1085, 1086, 1074, 1086>>,
    \* 'сума'
    suma |-> <<1089, 1091, 1084, 1072>>,
    \* 'REF-'
    ref |-> <<82, 69, 70, 45>>,
    \* 'INV-'
    inv |-> <<73, 78, 86, 45>>,
    \* '1,000.00'
    default_amount |-> <<49, 44, 48, 48, 48, 46, 48, 48>> ]

\* model names /api/tags can list
ollama_model ==
  [
    \* 'mistral:7b'
    mistral |-> <<109, 105, 115, 116, 114, 97, 108, 58, 55, 98>>,
    \* 'llama3:8b-instruct'
    llama_instruct |-> <<108, 108, 97, 109, 97, 51, 58, 56, 98, 45, 105, 110, 115, 116, 114,
        117, 99, 116>>,
    \* 'gemma2:2b'
    gemma |-> <<103, 101, 109, 109, 97, 50, 58, 50, 98>>,
    \* 'qwen2.5:72b-cloud'
    qwen_cloud |-> <<113, 119, 101, 110, 50, 46, 53, 58, 55, 50, 98, 45, 99, 108, 111, 117,
        100>>,
    \* 'minimax-m2:cloud'
    minimax_cloud |-> <<109, 105, 110, 105, 109, 97, 120, 45, 109, 50, 58, 99, 108, 111,
        117, 100>> ]

\* two sections of a file of ./docs, each of more than 50 characters (72, 74),
\* and the file's name
doc ==
  [
    \* 'Wi-Fi роутер роздає інтернет бездротовою мережею у вашому домі та офісі.'
    wifi |-> <<87, 105, 45, 70, 105, 32, 1088, 1086, 1091, 1090, 1077, 1088, 32, 1088, 1086,
        1079, 1076, 1072, 1108, 32, 1110, 1085, 1090, 1077, 1088, 1085, 1077, 1090, 32,
        1073, 1077, 1079, 1076, 1088, 1086, 1090, 1086, 1074, 1086, 1102, 32, 1084, 1077,
        1088, 1077, 1078, 1077, 1102, 32, 1091, 32, 1074, 1072, 1096, 1086, 1084, 1091, 32,
        1076, 1086, 1084, 1110, 32, 1090, 1072, 32, 1086, 1092, 1110, 1089, 1110, 46>>,
    \* 'Щоб скинути пароль, відкрийте сторінку входу та натисніть «Забули пароль».'
    password |-> <<1065, 1086, 1073, 32, 1089, 1082, 1080, 1085, 1091, 1090, 1080, 32, 1087,
        1072, 1088, 1086, 1083, 1100, 44, 32, 1074, 1110, 1076, 1082, 1088, 1080, 1081,
        1090, 1077, 32, 1089, 1090, 1086, 1088, 1110, 1085, 1082, 1091, 32, 1074, 1093,
        1086, 1076, 1091, 32, 1090, 1072, 32, 1085, 1072, 1090, 1080, 1089, 1085, 1110,
        1090, 1100, 32, 171, 1047, 1072, 1073, 1091, 1083, 1080, 32, 1087, 1072, 1088, 1086,
        1083, 1100, 187, 46>>,
    \* 'doc1.txt'
    source |-> <<100, 111, 99, 49, 46, 116, 120, 116>> ]

\* the pieces of the user message TechnicalAgentA.handle_query builds
\* (multi_agent_cloud.py:335, 344)
context_text ==
  [
    \* 'Контекст:'
    context |-> <<1050, 1086, 1085, 1090, 1077, 1082, 1089, 1090, 58>>,
    \* '\n\nПитання: '
    question |-> <<10, 10, 1055, 1080, 1090, 1072, 1085, 1085, 1103, 58, 32>>,
    \* '\n--- '
    source_open |-> <<10, 45, 45, 45, 32>>,
    \* ' ---\n'
    source_close |-> <<32, 45, 45, 45, 10>> ]

\* sections of the files of ./docs: three of more than 50 characters, one short,
\* one of exactly 50 characters, one of 51, one that is longer than 50 only with
\* the spaces around it; and the name of a second file
section ==
  [
    \* 'Пароль можна змінити у налаштуваннях профілю користувача.'
    reset |-> <<1055, 1072, 1088, 1086, 1083, 1100, 32, 1084, 1086, 1078, 1085, 1072, 32,
        1079, 1084, 1110, 1085, 1080, 1090, 1080, 32, 1091, 32, 1085, 1072, 1083, 1072,
        1096, 1090, 1091, 1074, 1072, 1085, 1085, 1103, 1093, 32, 1087, 1088, 1086, 1092,
        1110, 1083, 1102, 32, 1082, 1086, 1088, 1080, 1089, 1090, 1091, 1074, 1072, 1095,
        1072, 46>>,
    \* 'Новий пароль надсилається на вашу електронну пошту за хвилину.'
    recover |-> <<1053, 1086, 1074, 1080, 1081, 32, 1087, 1072, 1088, 1086, 1083, 1100, 32,
        1085, 1072, 1076, 1089, 1080, 1083, 1072, 1108, 1090, 1100, 1089, 1103, 32, 1085,
        1072, 32, 1074, 1072, 1096, 1091, 32, 1077, 1083, 1077, 1082, 1090, 1088, 1086,
        1085, 1085, 1091, 32, 1087, 1086, 1096, 1090, 1091, 32, 1079, 1072, 32, 1093, 1074,
        1080, 1083, 1080, 1085, 1091, 46>>,
    \* 'Питання: як скинути пароль? Відповідь: через форму відновлення доступу.'
    faq |-> <<1055, 1080, 1090, 1072, 1085, 1085, 1103, 58, 32, 1103, 1082, 32, 1089, 1082,
        1080, 1085, 1091, 1090, 1080, 32, 1087, 1072, 1088, 1086, 1083, 1100, 63, 32, 1042,
        1110, 1076, 1087, 1086, 1074, 1110, 1076, 1100, 58, 32, 1095, 1077, 1088, 1077,
        1079, 32, 1092, 1086, 1088, 1084, 1091, 32, 1074, 1110, 1076, 1085, 1086, 1074,
        1083, 1077, 1085, 1085, 1103, 32, 1076, 1086, 1089, 1090, 1091, 1087, 1091, 46>>,
    \* 'Короткий розділ.'
    short |-> <<1050, 1086, 1088, 1086, 1090, 1082, 1080, 1081, 32, 1088, 1086, 1079, 1076,
        1110, 1083, 46>>,
    \* "Цей розділ має рівно п'ятдесят символів, не більше"
    exact50 |-> <<1062, 1077, 1081, 32, 1088, 1086, 1079, 1076, 1110, 1083, 32, 1084, 1072,
        1108, 32, 1088, 1110, 1074, 1085, 1086, 32, 1087, 39, 1103, 1090, 1076, 1077, 1089,
        1103, 1090, 32, 1089, 1080, 1084, 1074, 1086, 1083, 1110, 1074, 44, 32, 1085, 1077,
        32, 1073, 1110, 1083, 1100, 1096, 1077>>,
    \* "Цей розділ має п'ятдесят один символ, тож лишається"
    exact51 |-> <<1062, 1077, 1081, 32, 1088, 1086, 1079, 1076, 1110, 1083, 32, 1084, 1072,
        1108, 32, 1087, 39, 1103, 1090, 1076, 1077, 1089, 1103, 1090, 32, 1086, 1076, 1080,
        1085, 32, 1089, 1080, 1084, 1074, 1086, 1083, 44, 32, 1090, 1086, 1078, 32, 1083,
        1080, 1096, 1072, 1108, 1090, 1100, 1089, 1103>>,
    \* '   Розділ із пробілами з обох боків, сам короткий.    \t'
    padded |-> <<32, 32, 32, 1056, 1086, 1079, 1076, 1110, 1083, 32, 1110, 1079, 32, 1087,
        1088, 1086, 1073, 1110, 1083, 1072, 1084, 1080, 32, 1079, 32, 1086, 1073, 1086,
        1093, 32, 1073, 1086, 1082, 1110, 1074, 44, 32, 1089, 1072, 1084, 32, 1082, 1086,
        1088, 1086, 1090, 1082, 1080, 1081, 46, 32, 32, 32, 32, 9>>,
    \* 'doc2.txt'
    source2 |-> <<100, 111, 99, 50, 46, 116, 120, 116>> ]

\* what stands between the sections of a file
separator ==
  [
    \* '\n\n'
    blank_line |-> <<10, 10>>,
    \* '\n \t\n'
    spaced_line |-> <<10, 32, 9, 10>>,
    \* '\n\n\n'
    two_blank_lines |-> <<10, 10, 10>>,
    \* '\n'
    newline |-> <<10>> ]

\* queries search_documents is called with besides the messages: a word twice,
\* and capital letters
search_text ==
  [
    \* 'пароль пароль'
    repeated |-> <<1087, 1072, 1088, 1086, 1083, 1100, 32, 1087, 1072, 1088, 1086, 1083,
        1100>>,
    \* 'Wi-Fi РОУТЕР'
    router |-> <<87, 105, 45, 70, 105, 32, 1056, 1054, 1059, 1058, 1045, 1056>> ]

\* multi_agent_cloud.py:47 cloud_models: 'minimax-m2:cloud', 'deepseek-v3.1:671b-cloud', 'deepseek-coder-v2:16b-cloud', 'qwen2.5:72b-cloud', 'llama3.1:70b-cloud'
cloud_models ==
  << <<109, 105, 110, 105, 109, 97, 120, 45, 109, 50, 58, 99, 108, 111, 117, 100>>,
     <<100, 101, 101, 112, 115, 101, 101, 107, 45, 118, 51, 46, 49, 58, 54, 55, 49, 98, 45, 99, 108, 111, 117, 100>>,
     <<100, 101, 101, 112, 115, 101, 101, 107, 45, 99, 111, 100, 101, 114, 45, 118, 50, 58, 49, 54, 98, 45, 99, 108, 111, 117, 100>>,
     <<113, 119, 101, 110, 50, 46, 53, 58, 55, 50, 98, 45, 99, 108, 111, 117, 100>>,
     <<108, 108, 97, 109, 97, 51, 46, 49, 58, 55, 48, 98, 45, 99, 108, 111, 117, 100>> >>

\* multi_agent_cloud.py:62 local_models: 'llama3:8b', 'llama3.2:3b', 'gemma2:2b'
local_models ==
  << <<108, 108, 97, 109, 97, 51, 58, 56, 98>>,
     <<108, 108, 97, 109, 97, 51, 46, 50, 58, 51, 98>>,
     <<103, 101, 109, 109, 97, 50, 58, 50, 98>> >>

\* ':cloud'
cloud_marker ==
  <<58, 99, 108, 111, 117, 100>>

-----------------------------------------------------------------------------
(* The questions the model feeds to the program.                           *)

Questions == {msg[k] : k \in DOMAIN msg}

\* question.lower(), once per question and per query of search_documents
question_lower ==
  [q \in Questions \cup {search_text[k] : k \in DOMAIN search_text} |-> lower(q)]

\* whether a call is in a trace of calls
called(calls_made, name) == \E i \in 1..Len(calls_made) : calls_made[i] = name

-----------------------------------------------------------------------------
(* AgentDispatcher.classify_intent, cloud variant.                         *)

\* tech_score and billing_score, once per question
scores_cloud ==
  [q \in Questions |->
     [tech    |-> count_in(tech_keywords.cloud, question_lower[q]),
      billing |-> count_in(billing_keywords.cloud, question_lower[q])]]

\* the vote on the two scores with the two intents exchanged
vote_cloud_exchanged(tech_score, billing_score) ==
  IF tech_score > billing_score
    THEN [intent |-> "billing", confidence |-> 80, calls |-> <<>>]
  ELSE IF billing_score > tech_score
    THEN [intent |-> "technical", confidence |-> 80, calls |-> <<>>]
  ELSE [intent |-> "technical", confidence |-> 50, calls |-> <<>>]

\* the vote on the two scores
vote_cloud(tech_score, billing_score) ==
  IF tech_score > billing_score
    THEN [intent |-> "technical", confidence |-> 80, calls |-> <<>>]
  ELSE IF billing_score > tech_score
    THEN [intent |-> "billing", confidence |-> 80, calls |-> <<>>]
  ELSE [intent |-> "technical", confidence |-> 50, calls |-> <<>>]

classify_intent_cloud(question) ==
  vote_cloud(scores_cloud[question].tech, scores_cloud[question].billing)

-----------------------------------------------------------------------------
(* OpenAIClient and AgentDispatcher.classify_intent, OpenAI variant.       *)

\* What client.chat.completions.create can do: answer with a text, answer with
\* no content, or raise.
ApiOutcomes ==
  { [kind |-> "content", text |-> t] :
      t \in {gpt.technical, gpt.billing_cased, gpt.unrecognized, gpt.answer} }
  \cup { [kind |-> "none"], [kind |-> "error"] }

\* OpenAIClient.generate_response: the content, None, or the error string
openai_generate_response(api) ==
  IF api.kind = "content" THEN [kind |-> "str", text |-> api.text]
  ELSE IF api.kind = "none" THEN [kind |-> "None"]
  ELSE [kind |-> "str", text |-> gpt.error_text]

\* the try block of _classify_with_chatgpt on the backend's response and the
\* return after it: response.strip() on None raises AttributeError, which the
\* bare except swallows
chatgpt_intent(response) ==
  LET intent == IF response.kind = "str" THEN lower(strip(response.text)) ELSE <<>>
      made   == <<"_classify_with_chatgpt", "classifier:generate_response">>
  IN  IF response.kind = "str" /\ intent = valid_intents[1]
        THEN [intent |-> "technical", confidence |-> 95, calls |-> made]
      ELSE IF response.kind = "str" /\ intent = valid_intents[2]
        THEN [intent |-> "billing", confidence |-> 95, calls |-> made]
      ELSE [intent |-> "billing", confidence |-> 50, calls |-> made]

classify_with_chatgpt(api) == chatgpt_intent(openai_generate_response(api))

\* billing_score and tech_score, once per question
scores_openai ==
  [q \in Questions |->
     [tech    |-> count_in(tech_keywords.openai, question_lower[q]),
      billing |-> count_in(billing_keywords.openai, question_lower[q])]]

\* classify_intent from the two scores on, a clear winner needing the backend's
\* word when there is a backend
vote_openai_backend_first(tech_score, billing_score, history, openai_client, api) ==
  IF openai_client /\ (billing_score > 0 \/ tech_score > 0)
    THEN classify_with_chatgpt(api)
  ELSE IF billing_score > tech_score * 2
    THEN [intent |-> "billing", confidence |-> 90, calls |-> <<>>]
  ELSE IF tech_score > billing_score * 2
    THEN [intent |-> "technical", confidence |-> 90, calls |-> <<>>]
  ELSE IF history # <<>>
    THEN [intent |-> history[Len(history)].agent, confidence |-> 70, calls |-> <<>>]
  ELSE [intent |-> "billing", confidence |-> 50, calls |-> <<>>]

\* classify_intent from the two scores on, without the look at the history
vote_openai_without_history(tech_score, billing_score, history, openai_client, api) ==
  IF billing_score > tech_score * 2
    THEN [intent |-> "billing", confidence |-> 90, calls |-> <<>>]
  ELSE IF tech_score > billing_score * 2
    THEN [intent |-> "technical", confidence |-> 90, calls |-> <<>>]
  ELSE IF openai_client /\ (billing_score > 0 \/ tech_score > 0)
    THEN classify_with_chatgpt(api)
  ELSE [intent |-> "billing", confidence |-> 50, calls |-> <<>>]

\* classify_intent from the two scores on
vote_openai(tech_score, billing_score, history, openai_client, api) ==
  IF billing_score > tech_score * 2
    THEN [intent |-> "billing", confidence |-> 90, calls |-> <<>>]
  ELSE IF tech_score > billing_score * 2
    THEN [intent |-> "technical", confidence |-> 90, calls |-> <<>>]
  ELSE IF openai_client /\ (billing_score > 0 \/ tech_score > 0)
    THEN classify_with_chatgpt(api)
  ELSE IF history # <<>>
    THEN [intent |-> history[Len(history)].agent, confidence |-> 70, calls |-> <<>>]
  ELSE [intent |-> "billing", confidence |-> 50, calls |-> <<>>]

\* classify_intent following the last history entry before it looks at the scores
classify_intent_openai_history_first(question, history, openai_client, api) ==
  IF history # <<>>
    THEN [intent |-> history[Len(history)].agent, confidence |-> 70, calls |-> <<>>]
  ELSE vote_openai(scores_openai[question].tech, scores_openai[question].billing,
                   history, openai_client, api)

\* AgentDispatcher.classify_intent, OpenAI variant
classify_intent_openai(question, history, openai_client, api) ==
  vote_openai(scores_openai[question].tech, scores_openai[question].billing,
              history, openai_client, api)

-----------------------------------------------------------------------------
(* BillingAgentB.                                                          *)

\* self.refund_policy; a fee is in percent (0.1 is 10)
refund_policy ==
  [standard |-> [days |-> 14, fee |-> 0,  description |-> "standard refund"],
   premium  |-> [days |-> 7,  fee |-> 0,  description |-> "premium refund"],
   express  |-> [days |-> 3,  fee |-> 10, description |-> "express refund (fee 10%)"]]

\* the order in which refund_policy.items() enumerates the table
refund_policy_order == <<"standard", "premium", "express">>

\* the first character of agent_name, the briefcase sign
billing_head == 128188

\* s[:n]
prefix(s, n) == SubSeq(s, 1, IF Len(s) < n THEN Len(s) ELSE n)

\* store[key] = record
put(store, key, record) ==
  [k \in DOMAIN store \cup {key} |-> IF k = key THEN record ELSE store[k]]

\* re.search(r'(\d+[,\d]*)', question): the first digit and the digits and commas
\* after it; <<>> when the question has no digit
search_amount(question) ==
  LET isdigit(c) == c >= 48 /\ c <= 57
      digits == {i \in 1..Len(question) : isdigit(question[i])}
  IN  IF digits = {} THEN <<>>
      ELSE LET lo == CHOOSE i \in digits : \A j \in digits : i <= j
               hi == CHOOSE j \in lo..Len(question) :
                       /\ \A k \in lo..j : isdigit(question[k]) \/ question[k] = 44
                       /\ (j = Len(question)
                             \/ ~(isdigit(question[j + 1]) \/ question[j + 1] = 44))
           IN  SubSeq(question, lo, hi)

\* the refund type with the express literals tested before the premium literal
refund_type_openai_express_first(question) ==
  IF contains(billing_text.express, question_lower[question])
       \/ contains(billing_text.urgent, question_lower[question]) THEN "express"
  ELSE IF contains(billing_text.premium, question_lower[question]) THEN "premium"
  ELSE "standard"

\* the refund type handle_refund_request reads from the question, OpenAI variant
refund_type_openai(question) ==
  IF contains(billing_text.premium, question_lower[question]) THEN "premium"
  ELSE IF contains(billing_text.express, question_lower[question])
            \/ contains(billing_text.urgent, question_lower[question]) THEN "express"
  ELSE "standard"

\* the refund type handle_refund_request reads from the question, cloud variant
refund_type_cloud(question) ==
  IF contains(billing_text.premium, question_lower[question]) THEN "premium"
  ELSE IF contains(billing_text.express, question_lower[question]) THEN "express"
  ELSE "standard"

\* handle_refund_request, OpenAI variant, once the id and the type are known
refund_created_openai(requests, invs, request_id, refund_type, now) ==
  [refund_requests |->
     put(requests, request_id,
         [type |-> refund_type, status |-> "pending_form", created_at |-> now,
          estimated_completion |-> now + refund_policy[refund_type].days]),
   invoices |-> invs,
   response |-> [kind |-> "refund_created", head |-> billing_head, id |-> request_id,
                 description |-> refund_policy[refund_type].description,
                 days |-> refund_policy[refund_type].days,
                 fee |-> IF refund_policy[refund_type].fee > 0
                           THEN <<refund_policy[refund_type].fee>> ELSE <<>>],
   calls |-> <<"handle_refund_request", "uuid4">>]

handle_refund_request_openai(question, requests, invs, hex, now) ==
  refund_created_openai(requests, invs, billing_text.ref \o upper(prefix(hex, 8)),
                        refund_type_openai(question), now)

\* handle_refund_request, cloud variant, once the id and the type are known
refund_created_cloud(requests, invs, request_id, refund_type, now) ==
  [refund_requests |->
     put(requests, request_id,
         [type |-> refund_type, status |-> "pending", created_at |-> now]),
   invoices |-> invs,
   response |-> [kind |-> "refund_created", head |-> billing_head, id |-> request_id,
                 description |-> refund_policy[refund_type].description,
                 days |-> refund_policy[refund_type].days,
                 fee |-> <<refund_policy[refund_type].fee>>],
   calls |-> <<"handle_refund_request", "uuid4">>]

handle_refund_request_cloud(question, requests, invs, hex, now) ==
  refund_created_cloud(requests, invs, billing_text.ref \o upper(prefix(hex, 6)),
                       refund_type_cloud(question), now)

\* the amount handle_invoice_request writes, OpenAI variant
invoice_amount(question) ==
  IF contains(billing_text.suma, question_lower[question]) /\ search_amount(question) # <<>>
    THEN search_amount(question)
  ELSE billing_text.default_amount

\* handle_invoice_request, OpenAI variant, once the id and the amount are known
invoice_created_openai(requests, invs, invoice_id, amount, now) ==
  [refund_requests |-> requests,
   invoices |->
     put(invs, invoice_id,
         [type |-> "standard", amount |-> amount, status |-> "generated",
          created_at |-> now]),
   response |-> [kind |-> "invoice_created", head |-> billing_head,
                 id |-> invoice_id, amount |-> amount],
   calls |-> <<"handle_invoice_request", "uuid4">>]

handle_invoice_request_openai(question, requests, invs, hex, now) ==
  invoice_created_openai(requests, invs, billing_text.inv \o upper(prefix(hex, 6)),
                         invoice_amount(question), now)

\* handle_invoice_request, cloud variant
handle_invoice_request_cloud(requests, invs, invoice_id, now) ==
  [refund_requests |-> requests,
   invoices |->
     put(invs, invoice_id,
         [amount |-> billing_text.default_amount, status |-> "generated", created_at |-> now]),
   response |-> [kind |-> "invoice_created", head |-> billing_head,
                 id |-> invoice_id, amount |-> billing_text.default_amount],
   calls |-> <<"handle_invoice_request", "uuid4">>]

\* explain_refund_policy: one entry per policy, in the table's order
explain_refund_policy ==
  [kind |-> "refund_policy", head |-> billing_head,
   lines |-> [i \in 1..Len(refund_policy_order) |->
                [description |-> refund_policy[refund_policy_order[i]].description,
                 days |-> refund_policy[refund_policy_order[i]].days,
                 fee |-> IF refund_policy[refund_policy_order[i]].fee > 0
                           THEN <<refund_policy[refund_policy_order[i]].fee>>
                         ELSE <<>>]]]

\* the loop of check_request_status over question.upper().split(): a REF- hit
\* ends the loop, an INV- hit does not; <<>> is None
RECURSIVE find_id(_, _, _, _)
find_id(words, found_id, requests, invs) ==
  IF words = <<>> THEN found_id
  ELSE IF startswith(Head(words), billing_text.ref) /\ Head(words) \in DOMAIN requests
    THEN Head(words)
  ELSE IF startswith(Head(words), billing_text.inv) /\ Head(words) \in DOMAIN invs
    THEN find_id(Tail(words), Head(words), requests, invs)
  ELSE find_id(Tail(words), found_id, requests, invs)

\* check_request_status without the test of found_id: a miss raises KeyError
status_response_unguarded(found_id, requests, invs) ==
  IF found_id = <<>>
    THEN [kind |-> "raise", head |-> billing_head]
  ELSE IF startswith(found_id, billing_text.ref)
    THEN [kind |-> "refund_status", head |-> billing_head, id |-> found_id,
          status |-> requests[found_id].status,
          description |-> refund_policy[requests[found_id].type].description,
          created_at |-> requests[found_id].created_at,
          estimated_completion |-> requests[found_id].estimated_completion]
  ELSE [kind |-> "invoice_status", head |-> billing_head, id |-> found_id,
        status |-> invs[found_id].status, amount |-> invs[found_id].amount,
        created_at |-> invs[found_id].created_at]

\* check_request_status after the loop
status_response(found_id, requests, invs) ==
  IF found_id = <<>>
    THEN [kind |-> "status_not_found", head |-> billing_head]
  ELSE IF startswith(found_id, billing_text.ref)
    THEN [kind |-> "refund_status", head |-> billing_head, id |-> found_id,
          status |-> requests[found_id].status,
          description |-> refund_policy[requests[found_id].type].description,
          created_at |-> requests[found_id].created_at,
          estimated_completion |-> requests[found_id].estimated_completion]
  ELSE [kind |-> "invoice_status", head |-> billing_head, id |-> found_id,
        status |-> invs[found_id].status, amount |-> invs[found_id].amount,
        created_at |-> invs[found_id].created_at]

\* check_request_status moving a request it finds to status "completed"
check_request_status_completing(question, requests, invs) ==
  [refund_requests |->
     [id \in DOMAIN requests |->
        IF id = find_id(split(upper(question)), <<>>, requests, invs)
          THEN [requests[id] EXCEPT !.status = "completed"] ELSE requests[id]],
   invoices |-> invs,
   response |-> status_response(find_id(split(upper(question)), <<>>, requests, invs),
                                requests, invs),
   calls |-> <<"check_request_status">>]

\* BillingAgentB.check_request_status
check_request_status(question, requests, invs) ==
  [refund_requests |-> requests, invoices |-> invs,
   response |-> status_response(find_id(split(upper(question)), <<>>, requests, invs),
                                requests, invs),
   calls |-> <<"check_request_status">>]

\* the any(...) tests of _try_structured_handling, once per question
structured_groups ==
  [q \in Questions |->
     [refund  |-> any_in(structured_words.refund, question_lower[q]),
      invoice |-> any_in(structured_words.invoice, question_lower[q]),
      policy  |-> any_in(structured_words.policy, question_lower[q]),
      status  |-> any_in(structured_words.status, question_lower[q])]]

\* _try_structured_handling, OpenAI variant, with the invoice group tried before
\* the refund group
try_structured_handling_invoice_first(question, requests, invs, hex, now) ==
  IF structured_groups[question].invoice
    THEN handle_invoice_request_openai(question, requests, invs, hex, now)
  ELSE IF structured_groups[question].refund
    THEN handle_refund_request_openai(question, requests, invs, hex, now)
  ELSE IF structured_groups[question].policy
    THEN [refund_requests |-> requests, invoices |-> invs,
          response |-> explain_refund_policy, calls |-> <<"explain_refund_policy">>]
  ELSE IF structured_groups[question].status
    THEN check_request_status(question, requests, invs)
  ELSE [refund_requests |-> requests, invoices |-> invs,
        response |-> [kind |-> "None"], calls |-> <<>>]

\* _try_structured_handling, OpenAI variant; response None is kind "None"
try_structured_handling_openai(question, requests, invs, hex, now) ==
  IF structured_groups[question].refund
    THEN handle_refund_request_openai(question, requests, invs, hex, now)
  ELSE IF structured_groups[question].invoice
    THEN handle_invoice_request_openai(question, requests, invs, hex, now)
  ELSE IF structured_groups[question].policy
    THEN [refund_requests |-> requests, invoices |-> invs,
          response |-> explain_refund_policy, calls |-> <<"explain_refund_policy">>]
  ELSE IF structured_groups[question].status
    THEN check_request_status(question, requests, invs)
  ELSE [refund_requests |-> requests, invoices |-> invs,
        response |-> [kind |-> "None"], calls |-> <<>>]

\* _try_structured_handling, cloud variant: it has no status group
try_structured_handling_cloud(question, requests, invs, hex, now) ==
  IF structured_groups[question].refund
    THEN handle_refund_request_cloud(question, requests, invs, hex, now)
  ELSE IF structured_groups[question].invoice
    THEN handle_invoice_request_cloud(requests, invs,
                                      billing_text.inv \o upper(prefix(hex, 6)), now)
  ELSE IF structured_groups[question].policy
    THEN [refund_requests |-> requests, invoices |-> invs,
          response |-> explain_refund_policy, calls |-> <<"explain_refund_policy">>]
  ELSE [refund_requests |-> requests, invoices |-> invs,
        response |-> [kind |-> "None"], calls |-> <<>>]

-----------------------------------------------------------------------------
(* TechnicalAgentA.                                                        *)

\* the first character of agent_name, the robot face
technical_head == 129302

\* the document stores the model starts from: ./docs empty, or one file of two
\* sections that are long enough to be kept
DocStores ==
  { <<>>,
    << [content |-> doc.wifi, source |-> doc.source, section_id |-> 1],
       [content |-> doc.password, source |-> doc.source, section_id |-> 2] >> }

\* the words of the query that count, each different word once
word_matches_distinct(query_words, content_lower) ==
  Cardinality({query_words[i] : i \in {j \in 1..Len(query_words) :
                 Len(query_words[j]) > 3 /\ contains(query_words[j], content_lower)}})

\* the words of the query that count: longer than three characters and found in
\* the content
word_matches(query_words, content_lower) ==
  Cardinality({i \in 1..Len(query_words) :
                 Len(query_words[i]) > 3 /\ contains(query_words[i], content_lower)})

\* the score search_documents gives one document for one query
doc_score(content, query) ==
  (IF contains(question_lower[query], lower(content)) THEN 5 ELSE 0)
    + word_matches(split(question_lower[query]), lower(content))

\* the scores of a store's documents for one query
doc_scores(docs, query) == [i \in 1..Len(docs) |-> doc_score(docs[i].content, query)]

\* the ranking with equal scores in the reverse of the store's order
ranked_ties_reversed(scores, top_k) ==
  LET scored    == {i \in 1..Len(scores) : scores[i] > 0}
      before(i) == {j \in scored :
                      scores[j] > scores[i] \/ (scores[j] = scores[i] /\ j > i)}
      size      == IF Cardinality(scored) < top_k THEN Cardinality(scored) ELSE top_k
  IN  [n \in 1..size |-> CHOOSE i \in scored : Cardinality(before(i)) = n - 1]

\* the documents of score > 0 in the order search_documents gives them: by
\* descending score, equal scores in the order of the store (list.sort is stable,
\* also with reverse=True), the first top_k
ranked(scores, top_k) ==
  LET scored    == {i \in 1..Len(scores) : scores[i] > 0}
      before(i) == {j \in scored :
                      scores[j] > scores[i] \/ (scores[j] = scores[i] /\ j < i)}
      size      == IF Cardinality(scored) < top_k THEN Cardinality(scored) ELSE top_k
  IN  [n \in 1..size |-> CHOOSE i \in scored : Cardinality(before(i)) = n - 1]

\* the entries search_documents returns, OpenAI variant: the whole content
found_openai(docs, scores, order) ==
  [n \in 1..Len(order) |->
     [content    |-> docs[order[n]].content,
      source     |-> docs[order[n]].source,
      section_id |-> docs[order[n]].section_id,
      score      |-> scores[order[n]]]]

\* the entries search_documents returns, cloud variant: content[:200]
found_cloud(docs, scores, order) ==
  [n \in 1..Len(order) |->
     [content    |-> prefix(docs[order[n]].content, 200),
      source     |-> docs[order[n]].source,
      section_id |-> docs[order[n]].section_id,
      score      |-> scores[order[n]]]]

search_documents_openai(docs, query, top_k) ==
  IF docs = <<>> THEN <<>>
  ELSE found_openai(docs, doc_scores(docs, query), ranked(doc_scores(docs, query), top_k))

search_documents_cloud(docs, query, top_k) ==
  IF docs = <<>> THEN <<>>
  ELSE found_cloud(docs, doc_scores(docs, query), ranked(doc_scores(docs, query), top_k))

\* search_documents(question) as each variant's handle_query calls it (top_k is
\* the default: 3, and 2 in the cloud variant), once per store and question
relevant_docs_openai ==
  [d \in DocStores |-> [q \in Questions |-> search_documents_openai(d, q, 3)]]

relevant_docs_cloud ==
  [d \in DocStores |-> [q \in Questions |-> search_documents_cloud(d, q, 2)]]

RECURSIVE concat(_)
\* ''.join(parts)
concat(parts) == IF parts = <<>> THEN <<>> ELSE Head(parts) \o concat(Tail(parts))

\* the context and the user message handle_query builds from what it found,
\* cloud variant
build_user_content(found, question) ==
  context_text.context
    \o concat([n \in 1..Len(found) |->
                 context_text.source_open \o found[n].source \o context_text.source_close
                   \o found[n].content \o <<10>>])
    \o context_text.question \o question

user_content_cloud(docs, question) ==
  build_user_content(relevant_docs_cloud[docs][question], question)

\* handle_query after the search, OpenAI variant
technical_reply_openai(found, openai_client, api) ==
  IF found = <<>> /\ ~openai_client
    THEN [response |-> [kind |-> "no_information", head |-> technical_head],
          calls |-> <<"search_documents">>]
  ELSE IF ~openai_client
    THEN [response |-> [kind |-> "documentation_digest", head |-> technical_head,
                        parts |-> [n \in 1..Len(found) |->
                                     [source  |-> found[n].source,
                                      content |-> prefix(found[n].content, 300)]]],
          calls |-> <<"search_documents">>]
  ELSE [response |-> [kind |-> "ai_answer", head |-> technical_head,
                      body |-> openai_generate_response(api),
                      sources |-> [n \in 1..Len(found) |->
                                     [source     |-> found[n].source,
                                      section_id |-> found[n].section_id]]],
        calls |-> <<"search_documents", "agent:generate_response">>]

\* TechnicalAgentA.handle_query, OpenAI variant
technical_handle_query_openai(question, docs, openai_client, api) ==
  technical_reply_openai(relevant_docs_openai[docs][question], openai_client, api)

-----------------------------------------------------------------------------
(* CloudAIClient, FastLocalClient, HybridAIClient (multi_agent_cloud.py).   *)

\* the first characters the code tests replies for
question_mark == 10067

cross_mark == 10060

\* what GET /api/tags can list at construction
ModelLists ==
  { <<>>,
    <<ollama_model.mistral>>,
    <<ollama_model.mistral, ollama_model.llama_instruct, ollama_model.gemma>>,
    <<ollama_model.gemma, ollama_model.qwen_cloud, ollama_model.minimax_cloud>> }

\* the least index of a non-empty set of indices
first_of(S) == CHOOSE i \in S : \A k \in S : i <= k

\* a selection in the order of the server's list: the first available model
\* that is a preferred cloud model, else the first available model
select_cloud_model_in_listed_order(available_models) ==
  LET hits == {j \in 1..Len(available_models) :
                 \E i \in 1..Len(cloud_models) : available_models[j] = cloud_models[i]}
  IN  IF hits # {} THEN available_models[first_of(hits)]
      ELSE IF available_models # <<>> THEN available_models[1]
      ELSE <<>>
\* _select_cloud_model: the selected model, <<>> for None
select_cloud_model(available_models) ==
  LET cloud_hits == {i \in 1..Len(cloud_models) :
                       \E j \in 1..Len(available_models) :
                          available_models[j] = cloud_models[i]}
      local_hits == {i \in 1..Len(local_models) :
                       \E j \in 1..Len(available_models) :
                          contains(local_models[i], available_models[j])}
      matching(l) == {j \in 1..Len(available_models) :
                        contains(local_models[l], available_models[j])}
  IN  IF cloud_hits # {} THEN cloud_models[first_of(cloud_hits)]
      ELSE IF local_hits # {}
        THEN available_models[first_of(matching(first_of(local_hits)))]
      ELSE IF available_models # <<>> THEN available_models[1]
      ELSE <<>>

\* CloudAIClient.__init__ with _initialize_connection: tags is the outcome of
\* _check_connection
new_cloud_client(tags) ==
  IF tags.ok
    THEN [available |-> TRUE, available_models |-> tags.models,
          selected_model |-> select_cloud_model(tags.models)]
  ELSE [available |-> FALSE, available_models |-> <<>>, selected_model |-> <<>>]

\* what POST /api/generate can do
HttpOutcomes ==
  { [kind |-> "ok", response |-> t] :
      t \in {model_answer.plain, model_answer.padded, model_answer.cross, model_answer.blank} }
  \cup { [kind |-> "ok_no_field"], [kind |-> "status"], [kind |-> "timeout"],
         [kind |-> "exception"] }

\* generate_response on a 200 answer: the stripped text, or the empty-answer error
answer_text(response_text) ==
  IF response_text # <<>>
    THEN [kind |-> "model_text", head |-> response_text[1], text |-> response_text]
  ELSE [kind |-> "cloud_error", head |-> cross_mark, why |-> "empty"]

\* generate_response without the test of available and selected_model, and
\* without the except clauses: a timeout and any other exception are raised
cloud_generate_response_unguarded(cloud, http) ==
  [response |->
     IF http.kind = "ok" THEN answer_text(strip(http.response))
     ELSE IF http.kind = "ok_no_field" THEN answer_text(<<>>)
     ELSE IF http.kind = "status"
       THEN [kind |-> "cloud_error", head |-> cross_mark, why |-> "api"]
     ELSE [kind |-> "raise", exc |-> http.kind],
   calls |-> <<"cloud.generate_response", "requests.post">>]

\* CloudAIClient.generate_response
cloud_generate_response(cloud, http) ==
  IF ~cloud.available \/ cloud.selected_model = <<>>
    THEN [response |-> [kind |-> "cloud_error", head |-> cross_mark, why |-> "no model"],
          calls |-> <<"cloud.generate_response">>]
  ELSE [response |->
          IF http.kind = "ok" THEN answer_text(strip(http.response))
          ELSE IF http.kind = "ok_no_field" THEN answer_text(<<>>)
          ELSE IF http.kind = "status"
            THEN [kind |-> "cloud_error", head |-> cross_mark, why |-> "api"]
          ELSE IF http.kind = "timeout"
            THEN [kind |-> "cloud_error", head |-> cross_mark, why |-> "timeout"]
          ELSE [kind |-> "cloud_error", head |-> cross_mark, why |-> "exception"],
        calls |-> <<"cloud.generate_response", "requests.post">>]

\* the indices of the messages of role user
user_indices(messages) == {i \in 1..Len(messages) : messages[i].role = "user"}

\* the greatest index of a non-empty set of indices
last_of(S) == CHOOSE i \in S : \A k \in S : k <= i

\* the user message FastLocalClient looks at: the content of the last message of
\* role user, lowercased; '' when there is none
last_user_message(messages) ==
  IF user_indices(messages) = {} THEN <<>>
  ELSE lower(messages[last_of(user_indices(messages))].content)

\* FastLocalClient._get_fallback_response
get_fallback_response(question) ==
  IF any_in(tech_words, question)
    THEN [kind |-> "fallback_technical", head |-> technical_head]
  ELSE IF any_in(billing_words, question)
    THEN [kind |-> "fallback_billing", head |-> billing_head]
  ELSE [kind |-> "not_recognized", head |-> question_mark]

\* the keys of self.responses found in the user message
template_hits(user_message) ==
  {i \in 1..Len(response_keys) : contains(response_keys[i], user_message)}

\* the loop of FastLocalClient.generate_response keeping the last key found
\* instead of returning at the first
fast_response_for_last_key(user_message) ==
  IF template_hits(user_message) # {}
    THEN [kind |-> "fast_template", head |-> technical_head,
          key |-> response_keys[last_of(template_hits(user_message))]]
  ELSE get_fallback_response(user_message)

\* the loop of FastLocalClient.generate_response and the fallback after it
fast_response_for(user_message) ==
  IF template_hits(user_message) # {}
    THEN [kind |-> "fast_template", head |-> technical_head,
          key |-> response_keys[first_of(template_hits(user_message))]]
  ELSE get_fallback_response(user_message)

\* the messages TechnicalAgentA.handle_query sends, cloud variant
technical_messages(docs, question) ==
  << [role |-> "system", content |-> <<>>, persona |-> "technical"],
     [role |-> "user", content |-> user_content_cloud(docs, question)] >>

\* the messages BillingAgentB.handle_query sends, cloud variant
billing_messages(question) ==
  << [role |-> "system", content |-> <<>>, persona |-> "billing"],
     [role |-> "user", content |-> question] >>

\* the message lists the clients are called with: those of the two responders,
\* a list without a user message, and lists whose last user message is not the
\* last message or not the only user message
MessageLists ==
  {technical_messages(d, q) : d \in DocStores, q \in Questions}
    \cup {billing_messages(q) : q \in Questions}
    \cup { << [role |-> "system", content |-> msg.wifi_question, persona |-> "none"] >>,
           << [role |-> "user", content |-> msg.wifi_question],
              [role |-> "user", content |-> msg.hello] >>,
           << [role |-> "user", content |-> msg.hello],
              [role |-> "user", content |-> msg.invoice_laptop],
              [role |-> "assistant", content |-> msg.hello] >> }

\* FastLocalClient.generate_response's reply, once per user message
fast_responses ==
  [t \in {last_user_message(m) : m \in MessageLists} |-> fast_response_for(t)]

\* FastLocalClient.generate_response
fast_generate_response(messages) == fast_responses[last_user_message(messages)]

\* generate_response asking the cloud a second time after a failure
after_cloud_retrying(cloud_answer, fast_response, selected_model) ==
  IF cloud_answer.response.head # cross_mark /\ selected_model = <<>>
    THEN [response |-> [kind |-> "raise", exc |-> "TypeError"],
          calls |-> <<"fast.generate_response">> \o cloud_answer.calls]
  ELSE IF cloud_answer.response.head # cross_mark
    THEN [response |-> [kind |-> "detailed_answer", head |-> technical_head,
                        model_type |-> IF contains(cloud_marker, selected_model)
                                         THEN "cloud" ELSE "local",
                        body |-> cloud_answer.response],
          calls |-> <<"fast.generate_response">> \o cloud_answer.calls]
  ELSE [response |-> fast_response,
        calls |-> <<"fast.generate_response">> \o cloud_answer.calls
                    \o cloud_answer.calls]

\* generate_response working out the model type before it looks at the
\* cloud's answer
after_cloud_model_type_first(cloud_answer, fast_response, selected_model) ==
  IF selected_model = <<>>
    THEN [response |-> [kind |-> "raise", exc |-> "TypeError"],
          calls |-> <<"fast.generate_response">> \o cloud_answer.calls]
  ELSE IF cloud_answer.response.head # cross_mark
    THEN [response |-> [kind |-> "detailed_answer", head |-> technical_head,
                        model_type |-> IF contains(cloud_marker, selected_model)
                                         THEN "cloud" ELSE "local",
                        body |-> cloud_answer.response],
          calls |-> <<"fast.generate_response">> \o cloud_answer.calls]
  ELSE [response |-> fast_response,
        calls |-> <<"fast.generate_response">> \o cloud_answer.calls]
\* HybridAIClient.generate_response once the cloud has answered; the test
\* ':cloud' in selected_model raises TypeError on None
after_cloud(cloud_answer, fast_response, selected_model) ==
  IF cloud_answer.response.head # cross_mark /\ selected_model = <<>>
    THEN [response |-> [kind |-> "raise", exc |-> "TypeError"],
          calls |-> <<"fast.generate_response">> \o cloud_answer.calls]
  ELSE IF cloud_answer.response.head # cross_mark
    THEN [response |-> [kind |-> "detailed_answer", head |-> technical_head,
                        model_type |-> IF contains(cloud_marker, selected_model)
                                         THEN "cloud" ELSE "local",
                        body |-> cloud_answer.response],
          calls |-> <<"fast.generate_response">> \o cloud_answer.calls]
  ELSE [response |-> fast_response,
        calls |-> <<"fast.generate_response">> \o cloud_answer.calls]

\* HybridAIClient.generate_response once the fast client has answered
after_fast(fast_response, cloud, http) ==
  IF fast_response.head # question_mark
    THEN [response |-> fast_response, calls |-> <<"fast.generate_response">>]
  ELSE IF cloud.available
    THEN after_cloud(cloud_generate_response(cloud, http), fast_response,
                     cloud.selected_model)
  ELSE [response |-> fast_response, calls |-> <<"fast.generate_response">>]

\* HybridAIClient.generate_response; cloud is its cloud_client
hybrid_generate_response(cloud, messages, http) ==
  after_fast(fast_generate_response(messages), cloud, http)

\* self.ai_client.generate_response(messages) in the cloud variant's responders:
\* AttributeError when ai_client is None
client_generate_response(client, messages, http) ==
  IF client.kind = "none"
    THEN [response |-> [kind |-> "raise", exc |-> "AttributeError"], calls |-> <<>>]
  ELSE hybrid_generate_response(client.cloud, messages, http)

\* what a responder of the cloud variant makes of the client's answer
agent_reply(head, ai, made) ==
  [response |-> IF ai.response.kind = "raise" THEN ai.response
                ELSE [kind |-> "agent_reply", head |-> head, body |-> ai.response],
   calls |-> made \o <<"agent:generate_response">> \o ai.calls]

\* a responder's answer beside the stores it left as they were
with_stores(t, requests, invs) ==
  [response |-> t.response, refund_requests |-> requests, invoices |-> invs,
   calls |-> t.calls]

\* TechnicalAgentA.handle_query, cloud variant
technical_handle_query_cloud(question, docs, client, http) ==
  agent_reply(technical_head,
              client_generate_response(client, technical_messages(docs, question), http),
              <<"search_documents">>)

\* handle_query after _try_structured_handling, cloud variant
after_structured_cloud(s, question, requests, invs, client, http) ==
  IF s.response.kind # "None"
    THEN [response |-> s.response, refund_requests |-> s.refund_requests,
          invoices |-> s.invoices, calls |-> <<"_try_structured_handling">> \o s.calls]
  ELSE with_stores(
         agent_reply(billing_head,
                     client_generate_response(client, billing_messages(question), http),
                     <<"_try_structured_handling">>),
         requests, invs)

\* BillingAgentB.handle_query, cloud variant
billing_handle_query_cloud(question, requests, invs, client, hex, now, http) ==
  after_structured_cloud(try_structured_handling_cloud(question, requests, invs, hex, now),
                         question, requests, invs, client, http)

\* handle_query after _try_structured_handling, OpenAI variant, with
\* _handle_with_chatgpt and _fallback_response
after_structured_openai(s, question, requests, invs, openai_client, api) ==
  IF s.response.kind # "None"
    THEN [response |-> s.response, refund_requests |-> s.refund_requests,
          invoices |-> s.invoices, calls |-> <<"_try_structured_handling">> \o s.calls]
  ELSE IF openai_client
    THEN [response |->
            [kind |-> "ai_answer", head |-> billing_head,
             body |-> openai_generate_response(api),
             quick_actions |-> \/ contains(structured_words.refund[1], question_lower[question])
                               \/ contains(structured_words.refund[2], question_lower[question])],
          refund_requests |-> requests, invoices |-> invs,
          calls |-> <<"_try_structured_handling", "_handle_with_chatgpt",
                      "agent:generate_response">>]
  ELSE [response |-> [kind |-> "capabilities", head |-> billing_head],
        refund_requests |-> requests, invoices |-> invs,
        calls |-> <<"_try_structured_handling", "_fallback_response">>]

\* BillingAgentB.handle_query, OpenAI variant
billing_handle_query_openai(question, requests, invs, openai_client, hex, now, api) ==
  after_structured_openai(try_structured_handling_openai(question, requests, invs, hex, now),
                          question, requests, invs, openai_client, api)

-----------------------------------------------------------------------------
(* TechnicalAgentA.process_document and the files it is given.             *)

\* where a match of \n\s*\n that starts at i can end: at a newline that only
\* white space separates from s[i]
split_ends(s, i) ==
  {j \in (i + 1)..Len(s) : s[j] = 10 /\ \A k \in (i + 1)..(j - 1) : isspace(s[k])}

\* where a match of \n\s*\n can start, from position from on
split_starts(s, from) ==
  {i \in from..Len(s) : s[i] = 10 /\ split_ends(s, i) # {}}

RECURSIVE sections_from(_, _)
\* re.split(r'\n\s*\n', s) from position from on: the leftmost match, taken as
\* long as it can be (\s* is greedy), ends a section
sections_from(s, from) ==
  IF split_starts(s, from) = {} THEN << SubSeq(s, from, Len(s)) >>
  ELSE << SubSeq(s, from, first_of(split_starts(s, from)) - 1) >>
         \o sections_from(s, last_of(split_ends(s, first_of(split_starts(s, from)))) + 1)

\* re.split(r'\n\s*\n', content)
re_split(content) == sections_from(content, 1)

RECURSIVE kept_sections(_, _, _, _)
\* the loop of process_document with sections of 50 characters kept as well
kept_sections_from_fifty(sections, i, source, docs) ==
  IF i > Len(sections) THEN docs
  ELSE IF Len(strip(sections[i])) >= 50
    THEN kept_sections(sections, i + 1, source,
                       Append(docs, [content |-> strip(sections[i]), source |-> source,
                                     section_id |-> i]))
  ELSE kept_sections(sections, i + 1, source, docs)

\* the loop of process_document over enumerate(sections), from the i-th section
\* on; section_id is i + 1 for the 0-based i of the code
kept_sections(sections, i, source, docs) ==
  IF i > Len(sections) THEN docs
  ELSE IF Len(strip(sections[i])) > 50
    THEN kept_sections(sections, i + 1, source,
                       Append(docs, [content |-> strip(sections[i]), source |-> source,
                                     section_id |-> i]))
  ELSE kept_sections(sections, i + 1, source, docs)

\* TechnicalAgentA.process_document: self.documents after the call
process_document(docs, content, source) ==
  kept_sections(re_split(content), 1, source, docs)

\* the files of ./docs the model reads
DocFiles ==
  { [source  |-> doc.source,
     content |-> section.reset \o separator.blank_line \o section.short
                   \o separator.blank_line \o doc.password
                   \o separator.spaced_line \o section.recover],
    [source  |-> section.source2,
     content |-> separator.blank_line \o section.faq \o separator.blank_line
                   \o section.exact50 \o separator.two_blank_lines \o section.exact51
                   \o separator.blank_line \o section.padded
                   \o separator.blank_line \o doc.wifi],
    [source  |-> section.source2,
     content |-> section.short \o separator.newline \o section.short],
    [source  |-> section.source2,
     content |-> section.recover \o separator.blank_line \o section.recover] }

-----------------------------------------------------------------------------
(* AgentDispatcher.handle_message.                                         *)

\* the cap on conversation_history
history_cap == 10

\* the append with the cut taken from the wrong end: [:10] for [-10:]
append_history_keeps_oldest(history, entry) ==
  IF Len(history) + 1 > history_cap
    THEN SubSeq(Append(history, entry), 1, history_cap)
  ELSE Append(history, entry)

\* self.conversation_history.append(entry), then the cut to the last ten
append_history(history, entry) ==
  IF Len(history) + 1 > history_cap
    THEN SubSeq(Append(history, entry), Len(history) + 2 - history_cap, Len(history) + 1)
  ELSE Append(history, entry)

\* the reply to an empty message; its first character is the Cyrillic capital Be
enter_question == [kind |-> "enter_question", head |-> 1041]

\* the reply of the OpenAI variant to a classification of low confidence
clarify == [kind |-> "clarify", head |-> question_mark]

\* what handle_message leaves when it returns, or raises, before the append
untouched(response, history, requests, invs, made) ==
  [response |-> response, conversation_history |-> history,
   refund_requests |-> requests, invoices |-> invs, calls |-> made]

\* handle_message from the responder's answer on, cloud variant: an exception of
\* the responder leaves the history as it was
record_turn_cloud(c, a, user_message, history, requests, invs, now) ==
  IF a.response.kind = "raise"
    THEN untouched(a.response, history, requests, invs,
                   <<"classify_intent">> \o c.calls \o a.calls)
  ELSE [response |-> a.response,
        conversation_history |->
          append_history(history,
            [timestamp |-> now, user_message |-> user_message,
             agent_response |-> a.response, agent |-> c.intent]),
        refund_requests |-> a.refund_requests, invoices |-> a.invoices,
        calls |-> <<"classify_intent">> \o c.calls \o a.calls]

\* the responder handle_message calls for a classification, cloud variant
route_cloud(c, user_message, history, requests, invs, docs, client, hex, now, http) ==
  IF c.intent = "technical"
    THEN record_turn_cloud(c,
           with_stores(technical_handle_query_cloud(user_message, docs, client, http),
                       requests, invs),
           user_message, history, requests, invs, now)
  ELSE record_turn_cloud(c,
         billing_handle_query_cloud(user_message, requests, invs, client, hex, now, http),
         user_message, history, requests, invs, now)

\* handle_message, cloud variant, testing the message without strip()
handle_message_cloud_unstripped(user_message, history, requests, invs, docs, client, hex, now, http) ==
  IF user_message = <<>>
    THEN untouched(enter_question, history, requests, invs, <<>>)
  ELSE route_cloud(classify_intent_cloud(user_message), user_message, history,
                   requests, invs, docs, client, hex, now, http)

\* handle_message, cloud variant
handle_message_cloud(user_message, history, requests, invs, docs, client, hex, now, http) ==
  IF strip(user_message) = <<>>
    THEN untouched(enter_question, history, requests, invs, <<>>)
  ELSE route_cloud(classify_intent_cloud(user_message), user_message, history,
                   requests, invs, docs, client, hex, now, http)

\* handle_message from the responder's answer on, OpenAI variant
record_turn_openai(c, a, user_message, history, now) ==
  [response |-> a.response,
   conversation_history |->
     append_history(history,
       [timestamp |-> now, user_message |-> user_message,
        agent_response |-> a.response, agent |-> c.intent,
        confidence |-> c.confidence]),
   refund_requests |-> a.refund_requests, invoices |-> a.invoices,
   calls |-> <<"classify_intent">> \o c.calls \o a.calls]

\* handle_message after the classification without the test of the confidence
route_openai_unasked(c, user_message, history, requests, invs, docs, openai_client, hex, now, api) ==
  IF c.intent = "technical"
    THEN record_turn_openai(c,
           with_stores(
             technical_handle_query_openai(user_message, docs, openai_client, api),
             requests, invs),
           user_message, history, now)
  ELSE record_turn_openai(c,
         billing_handle_query_openai(user_message, requests, invs, openai_client, hex,
                                     now, api),
         user_message, history, now)
\* handle_message after the classification, OpenAI variant
route_openai(c, user_message, history, requests, invs, docs, openai_client, hex, now, api) ==
  IF c.confidence < 60
    THEN untouched(clarify, history, requests, invs, <<"classify_intent">> \o c.calls)
  ELSE IF c.intent = "technical"
    THEN record_turn_openai(c,
           with_stores(
             technical_handle_query_openai(user_message, docs, openai_client, api),
             requests, invs),
           user_message, history, now)
  ELSE record_turn_openai(c,
         billing_handle_query_openai(user_message, requests, invs, openai_client, hex,
                                     now, api),
         user_message, history, now)

\* handle_message, OpenAI variant
handle_message_openai(user_message, history, requests, invs, docs, openai_client, hex, now, api_intent, api_answer) ==
  IF strip(user_message) = <<>>
    THEN untouched(enter_question, history, requests, invs, <<>>)
  ELSE route_openai(classify_intent_openai(user_message, history, openai_client,
                                           api_intent),
                    user_message, history, requests, invs, docs, openai_client, hex,
                    now, api_answer)

-----------------------------------------------------------------------------
(* The state machine.                                                      *)

\* how many messages a session of Spec handles
MaxTurns == 1

\* what /api/tags answers when the hybrid client is constructed
TagOutcomes ==
  { [ok |-> FALSE] } \cup { [ok |-> TRUE, models |-> l] : l \in ModelLists }

\* the hybrid clients main can construct
HybridClients == { [kind |-> "hybrid", cloud |-> new_cloud_client(t)] : t \in TagOutcomes }

\* the backends a dispatcher of each variant can be constructed with
Clients(v) ==
  IF v = "openai" THEN { [kind |-> "none"], [kind |-> "openai"] }
  ELSE { [kind |-> "none"] } \cup HybridClients

\* AgentDispatcher.__init__
Constructed(v, client, docs) ==
  /\ variant = v
  /\ ai_client = client
  /\ documents = docs
  /\ conversation_history = <<>>
  /\ refund_requests = <<>>
  /\ invoices = <<>>
  /\ clock = 0
  /\ op = [name |-> "init"]
  /\ result = [kind |-> "None"]
  /\ calls = <<>>
  /\ main = "input"

\* the clock moves when a message is handled
tick(user_message) == IF strip(user_message) = <<>> THEN clock ELSE clock + 1

\* the outcome of a call that is not made
NotCalled == [kind |-> "not called"]

\* the outcomes to draw for a call: those it can have when the handler makes it
Draws(made, name, outcomes, unused) == IF called(made, name) THEN outcomes ELSE {unused}

\* the state a call of handle_message leaves
Handled(r, user_message) ==
  /\ conversation_history' = r.conversation_history
  /\ refund_requests' = r.refund_requests
  /\ invoices' = r.invoices
  /\ clock' = tick(user_message)
  /\ op' = [name |-> "handle_message", user_message |-> user_message]
  /\ result' = r.response
  /\ calls' = r.calls
  /\ UNCHANGED << main, variant, ai_client, documents >>

\* handle_message(user_message) with the present state, cloud variant
handle_cloud(user_message, hex, http) ==
  handle_message_cloud(user_message, conversation_history, refund_requests, invoices,
                       documents, ai_client, hex, clock, http)

\* dispatcher.handle_message(user_message), cloud variant
HandleMessageCloud(questions, turns) ==
  /\ variant = "cloud"
  /\ \E user_message \in questions :
       /\ tick(user_message) <= turns
       /\ \E hex \in Draws(handle_cloud(user_message, uuid_hex.first, NotCalled).calls,
                           "uuid4", {uuid_hex.first, uuid_hex.second}, uuid_hex.first),
             http \in Draws(handle_cloud(user_message, uuid_hex.first, NotCalled).calls,
                            "requests.post", HttpOutcomes, NotCalled) :
            Handled(handle_cloud(user_message, hex, http), user_message)

\* handle_message(user_message) with the present state, OpenAI variant
handle_openai(user_message, hex, api_intent, api_answer) ==
  handle_message_openai(user_message, conversation_history, refund_requests, invoices,
                        documents, ai_client.kind = "openai", hex, clock, api_intent,
                        api_answer)

\* dispatcher.handle_message(user_message), OpenAI variant
HandleMessageOpenAI(questions, turns) ==
  /\ variant = "openai"
  /\ \E user_message \in questions :
       /\ tick(user_message) <= turns
       /\ \E api_intent \in Draws(handle_openai(user_message, uuid_hex.first, NotCalled,
                                                NotCalled).calls,
                                  "classifier:generate_response", ApiOutcomes, NotCalled) :
            \E hex \in Draws(handle_openai(user_message, uuid_hex.first, api_intent,
                                           NotCalled).calls,
                             "uuid4", {uuid_hex.first, uuid_hex.second}, uuid_hex.first),
               api_answer \in Draws(handle_openai(user_message, uuid_hex.first, api_intent,
                                                  NotCalled).calls,
                                    "agent:generate_response", ApiOutcomes, NotCalled) :
              Handled(handle_openai(user_message, hex, api_intent, api_answer),
                      user_message)

\* a clear command that also empties the stores of the billing responder
ClearAll ==
  /\ conversation_history' = <<>>
  /\ refund_requests' = <<>>
  /\ invoices' = <<>>
  /\ op' = [name |-> "clear"]
  /\ result' = [kind |-> "None"]
  /\ calls' = <<>>
  /\ UNCHANGED << main, variant, ai_client, documents, clock >>
\* the clear command of main: dispatcher.conversation_history = []
Clear ==
  /\ conversation_history' = <<>>
  /\ op' = [name |-> "clear"]
  /\ result' = [kind |-> "None"]
  /\ calls' = <<>>
  /\ UNCHANGED << main, variant, ai_client, documents, refund_requests, invoices, clock >>

\* Sessions of either dispatcher over all the questions.
Init ==
  \E v \in {"cloud", "openai"} :
    \E client \in Clients(v), docs \in DocStores : Constructed(v, client, docs)

Next ==
  \/ HandleMessageCloud(Questions, MaxTurns)
  \/ HandleMessageOpenAI(Questions, MaxTurns)
  \/ Clear

Spec == Init /\ [][Next]_vars

-----------------------------------------------------------------------------
(* Long sessions: the history reaches its cap.                             *)

\* how many messages a session of SpecHistory handles
HistoryTurns == 12

\* a technical question, a billing question and an empty message
HistoryQuestions == {msg.empty, msg.network, msg.policy}

\* a dispatcher of each variant whose backend cannot be reached
InitHistory ==
  \/ Constructed("cloud", [kind |-> "hybrid", cloud |-> new_cloud_client([ok |-> FALSE])],
                 <<>>)
  \/ Constructed("openai", [kind |-> "none"], <<>>)

NextHistory ==
  \/ HandleMessageCloud(HistoryQuestions, HistoryTurns)
  \/ HandleMessageOpenAI(HistoryQuestions, HistoryTurns)
  \/ Clear

SpecHistory == InitHistory /\ [][NextHistory]_vars

-----------------------------------------------------------------------------
(* classify_intent called on the states a session reaches.                 *)

\* how many messages a session of SpecClassify handles before the calls
SeedTurns == 1

\* a question each variant routes to the technical responder, and one each
\* routes to the billing responder
SeedQuestions == {msg.network, msg.rahunok_oplata}

\* the state a call of classify_intent leaves: it returns (intent, confidence)
Classified(c, question, api) ==
  /\ op' = [name |-> "classify_intent", question |-> question, api |-> api]
  /\ result' = [kind |-> "intent", intent |-> c.intent, confidence |-> c.confidence]
  /\ calls' = c.calls
  /\ UNCHANGED << main, variant, ai_client, documents, conversation_history,
                  refund_requests, invoices, clock >>

\* dispatcher.classify_intent(question), cloud variant
ClassifyIntentCloud ==
  /\ variant = "cloud"
  /\ \E question \in Questions :
       Classified(classify_intent_cloud(question), question, NotCalled)

\* classify_intent(question) with the present state, OpenAI variant
classify_openai(question, api) ==
  classify_intent_openai(question, conversation_history, ai_client.kind = "openai", api)

\* dispatcher.classify_intent(question), OpenAI variant
ClassifyIntentOpenAI ==
  /\ variant = "openai"
  /\ \E question \in Questions :
       \E api \in Draws(classify_openai(question, NotCalled).calls,
                        "classifier:generate_response", ApiOutcomes, NotCalled) :
         Classified(classify_openai(question, api), question, api)

InitClassify ==
  \E v \in {"cloud", "openai"} : \E client \in Clients(v) : Constructed(v, client, <<>>)

NextClassify ==
  \/ HandleMessageCloud(SeedQuestions, SeedTurns)
  \/ HandleMessageOpenAI(SeedQuestions, SeedTurns)
  \/ ClassifyIntentCloud
  \/ ClassifyIntentOpenAI

SpecClassify == InitClassify /\ [][NextClassify]_vars

-----------------------------------------------------------------------------
(* The hybrid client called on its own.                                    *)

\* the state a call of HybridAIClient.generate_response leaves
Generated(r, messages, http) ==
  /\ op' = [name |-> "generate_response", messages |-> messages, http |-> http]
  /\ result' = r.response
  /\ calls' = r.calls
  /\ UNCHANGED << main, variant, ai_client, documents, conversation_history,
                  refund_requests, invoices, clock >>

\* ai_client.generate_response(messages)
GenerateResponse ==
  /\ ai_client.kind = "hybrid"
  /\ \E messages \in MessageLists :
       \E http \in Draws(hybrid_generate_response(ai_client.cloud, messages,
                                                  NotCalled).calls,
                         "requests.post", HttpOutcomes, NotCalled) :
         Generated(hybrid_generate_response(ai_client.cloud, messages, http),
                   messages, http)

\* the model names switch_model is called with: some are in the client's list,
\* some are not
ModelNames == {ollama_model[k] : k \in DOMAIN ollama_model}

\* switch_model without the test of the name against available_models
cloud_switch_model_unchecked(cloud, model_name) ==
  [cloud |-> [cloud EXCEPT !.selected_model = model_name], returned |-> TRUE]
\* CloudAIClient.switch_model: the client after the call and the value returned
cloud_switch_model(cloud, model_name) ==
  IF \E j \in 1..Len(cloud.available_models) : cloud.available_models[j] = model_name
    THEN [cloud |-> [cloud EXCEPT !.selected_model = model_name], returned |-> TRUE]
  ELSE [cloud |-> cloud, returned |-> FALSE]

\* HybridAIClient.switch_model
switch_model(cloud, model_name) ==
  IF cloud.available THEN cloud_switch_model(cloud, model_name)
  ELSE [cloud |-> cloud, returned |-> FALSE]

\* the state a call of switch_model leaves
Switched(s, model_name) ==
  /\ ai_client' = [ai_client EXCEPT !.cloud = s.cloud]
  /\ op' = [name |-> "switch_model", model_name |-> model_name]
  /\ result' = [kind |-> "bool", value |-> s.returned]
  /\ calls' = <<>>
  /\ UNCHANGED << main, variant, documents, conversation_history, refund_requests,
                  invoices, clock >>

\* ai_client.switch_model(model_name)
SwitchModel ==
  /\ ai_client.kind = "hybrid"
  /\ \E model_name \in ModelNames :
       Switched(switch_model(ai_client.cloud, model_name), model_name)

InitHybrid == \E client \in HybridClients : Constructed("cloud", client, <<>>)

NextHybrid == GenerateResponse \/ SwitchModel

SpecHybrid == InitHybrid /\ [][NextHybrid]_vars

-----------------------------------------------------------------------------
(* The document store: files are processed, then searched.                 *)

\* how many files a run of SpecDocs processes
DocTurns == 2

\* the queries of SpecDocs: empty, no word in any section, words in some
\* sections, one word twice, capital letters
SearchQueries == {msg.empty, msg.hello, msg.password, search_text.repeated, search_text.router}

\* agent_a.process_document(content, source)
ProcessDocument ==
  /\ clock < DocTurns
  /\ \E file \in DocFiles :
       /\ documents' = process_document(documents, file.content, file.source)
       /\ op' = [name |-> "process_document", content |-> file.content,
                 source |-> file.source]
  /\ clock' = clock + 1
  /\ result' = [kind |-> "None"]
  /\ calls' = <<>>
  /\ UNCHANGED << main, variant, ai_client, conversation_history, refund_requests, invoices >>

\* agent_a.search_documents(query, top_k) with top_k none, the defaults of the
\* two variants, and between
SearchDocuments ==
  /\ \E query \in SearchQueries : \E top_k \in 0..3 :
       /\ op' = [name |-> "search_documents", query |-> query, top_k |-> top_k]
       /\ result' =
            [kind |-> "documents",
             found |-> IF variant = "openai"
                         THEN search_documents_openai(documents, query, top_k)
                       ELSE search_documents_cloud(documents, query, top_k)]
  /\ calls' = <<>>
  /\ UNCHANGED << main, variant, ai_client, documents, conversation_history,
                  refund_requests, invoices, clock >>

InitDocs == \E v \in {"cloud", "openai"} : Constructed(v, [kind |-> "none"], <<>>)

NextDocs == ProcessDocument \/ SearchDocuments

SpecDocs == InitDocs /\ [][NextDocs]_vars

-----------------------------------------------------------------------------
(* Billing sessions: requests and invoices are created and looked up.      *)

\* how many messages a session of SpecBilling handles
BillingTurns == 2

\* refund requests of each type, an invoice request, the policy, look-ups of a
\* request and of an invoice, a technical question and an empty message
BillingQuestions ==
  {msg.refund_express, msg.refund_premium, msg.refund_urgent, msg.refund_invoice,
   msg.rahunok_oplata, msg.policy, msg.status_ref, msg.status_inv, msg.network,
   msg.empty}

NextBilling ==
  \/ HandleMessageCloud(BillingQuestions, BillingTurns)
  \/ HandleMessageOpenAI(BillingQuestions, BillingTurns)
  \/ Clear

SpecBilling == InitHistory /\ [][NextBilling]_vars

-----------------------------------------------------------------------------
(* The cloud client called on its own.                                     *)

\* ai_client.cloud_client.generate_response(messages)
CloudGenerateResponse ==
  /\ ai_client.kind = "hybrid"
  /\ \E messages \in MessageLists :
       \E http \in Draws(cloud_generate_response(ai_client.cloud, NotCalled).calls,
                         "requests.post", HttpOutcomes, NotCalled) :
         /\ op' = [name |-> "cloud.generate_response", messages |-> messages,
                   http |-> http]
         /\ result' = cloud_generate_response(ai_client.cloud, http).response
         /\ calls' = cloud_generate_response(ai_client.cloud, http).calls
  /\ UNCHANGED << main, variant, ai_client, documents, conversation_history,
                  refund_requests, invoices, clock >>

NextCloud == CloudGenerateResponse \/ SwitchModel

SpecCloud == InitHybrid /\ [][NextCloud]_vars

-----------------------------------------------------------------------------
(* The read loop of main.                                                   *)

\* the words main compares the stripped, lowercased input with
command ==
  [ \* 'quit'
    quit |-> <<113, 117, 105, 116>>,
    \* 'exit'
    exit |-> <<101, 120, 105, 116>>,
    \* 'вихід'
    leave |-> <<1074, 1080, 1093, 1110, 1076>>,
    \* 'статистика'
    statistics |-> <<1089, 1090, 1072, 1090, 1080, 1089, 1090, 1080, 1082, 1072>>,
    \* 'моделі'
    models |-> <<1084, 1086, 1076, 1077, 1083, 1110>>,
    \* 'перемкнути'
    switch |-> <<1087, 1077, 1088, 1077, 1084, 1082, 1085, 1091, 1090, 1080>>,
    \* 'clear'
    clear |-> <<99, 108, 101, 97, 114>>,
    \* 'історія'
    history |-> <<1110, 1089, 1090, 1086, 1088, 1110, 1103>> ]

\* how many messages a session of SpecMain hands to handle_message
MainTurns == 2

\* the lines typed at the prompt: the commands of the variant's loop, some in
\* capitals or padded, a technical question, a refund request and an empty line
MainLines(v) ==
  {
    \* ' QUIT '
    <<32, 81, 85, 73, 84, 32>>,
    \* 'exit'
    <<101, 120, 105, 116>>,
    \* 'Вихід'
    <<1042, 1080, 1093, 1110, 1076>>,
    \* 'статистика'
    <<1089, 1090, 1072, 1090, 1080, 1089, 1090, 1080, 1082, 1072>>,
    \* 'Clear'
    <<67, 108, 101, 97, 114>>
  }
  \cup {msg.network, msg.refund_express, msg.empty}
  \cup IF v = "cloud"
         THEN {
    \* 'моделі'
    <<1084, 1086, 1076, 1077, 1083, 1110>>,
    \* 'перемкнути gemma2:2b'
    <<1087, 1077, 1088, 1077, 1084, 1082, 1085, 1091, 1090, 1080, 32, 103, 101, 109, 109, 97,
          50, 58, 50, 98>>,
    \* 'перемкнути mistral:7b'
    <<1087, 1077, 1088, 1077, 1084, 1082, 1085, 1091, 1090, 1080, 32, 109, 105, 115, 116,
          114, 97, 108, 58, 55, 98>>,
    \* 'перемкнути '
    <<1087, 1077, 1088, 1077, 1084, 1082, 1085, 1091, 1090, 1080, 32>>
              }
       ELSE {
    \* 'історія'
    <<1110, 1089, 1090, 1086, 1088, 1110, 1103>>
            }

\* the branch of the loop body an input takes; user_input is the stripped line
branch(v, user_input) ==
  IF lower(user_input) \in {command.quit, command.exit, command.leave} THEN "quit"
  ELSE IF v = "openai" /\ user_input = <<>> THEN "continue"
  ELSE IF lower(user_input) = command.statistics THEN "statistics"
  ELSE IF v = "cloud" /\ lower(user_input) = command.models THEN "models"
  ELSE IF v = "openai" /\ lower(user_input) = command.history THEN "history"
  ELSE IF v = "cloud" /\ startswith(lower(user_input), command.switch) THEN "switch"
  ELSE IF lower(user_input) = command.clear THEN "clear"
  ELSE "handle_message"

\* a loop without the clause `except Exception`: an exception ends it
loop_after_uncaught(event) ==
  IF event \in {"quit", "KeyboardInterrupt", "Exception"} THEN "ended" ELSE "input"
\* where the loop is after an iteration: break on a quit word and on
\* KeyboardInterrupt; an Exception is printed and the loop goes on, as it does
\* after every other branch
loop_after(event) ==
  IF event \in {"quit", "KeyboardInterrupt"} THEN "ended" ELSE "input"

\* what an iteration leaves of itself: the event, the line read, what was printed
Iterated(event, line, printed) ==
  /\ main' = loop_after(event)
  /\ op' = [name |-> "main", event |-> event, line |-> line]
  /\ result' = printed
  /\ calls' = <<>>

\* input() raises: KeyboardInterrupt at Ctrl-C, EOFError at the end of the input
InputRaises ==
  /\ main = "input"
  /\ \/ Iterated("KeyboardInterrupt", <<>>, [kind |-> "None"])
     \/ Iterated("Exception", <<>>, [kind |-> "error", exc |-> "EOFError"])
  /\ UNCHANGED << variant, ai_client, documents, conversation_history,
                  refund_requests, invoices, clock >>

\* a quit word, an empty line (OpenAI variant), and the commands that only print
Command ==
  /\ main = "input"
  /\ \E line \in MainLines(variant) :
       /\ branch(variant, strip(line))
            \in {"quit", "continue", "statistics", "models", "history"}
       /\ Iterated(branch(variant, strip(line)), line,
                   IF branch(variant, strip(line)) \in {"statistics", "history"}
                     THEN [kind |-> branch(variant, strip(line)),
                           total_messages |-> Len(conversation_history)]
                   ELSE IF branch(variant, strip(line)) = "models"
                     THEN [kind |-> "models",
                           models |-> IF ai_client.cloud.available
                                        THEN ai_client.cloud.available_models ELSE <<>>]
                   ELSE [kind |-> "None"])
  /\ UNCHANGED << variant, ai_client, documents, conversation_history,
                  refund_requests, invoices, clock >>

\* the switch command of the cloud variant: model_name = user_input[10:].strip()
SwitchCommand ==
  /\ main = "input"
  /\ \E line \in MainLines(variant) :
       /\ branch(variant, strip(line)) = "switch"
       /\ \E model_name \in {strip(SubSeq(strip(line), 11, Len(strip(line))))} :
            IF model_name # <<>>
              THEN /\ ai_client' = [ai_client EXCEPT
                                      !.cloud = switch_model(ai_client.cloud, model_name).cloud]
                   /\ Iterated("switch", line,
                               [kind |-> "bool",
                                value |-> switch_model(ai_client.cloud, model_name).returned])
            ELSE /\ UNCHANGED ai_client
                 /\ Iterated("switch", line, [kind |-> "None"])
  /\ UNCHANGED << variant, documents, conversation_history, refund_requests,
                  invoices, clock >>

\* the clear command
ClearCommand ==
  /\ main = "input"
  /\ \E line \in MainLines(variant) :
       /\ branch(variant, strip(line)) = "clear"
       /\ Iterated("clear", line, [kind |-> "None"])
  /\ conversation_history' = <<>>
  /\ UNCHANGED << variant, ai_client, documents, refund_requests, invoices, clock >>

\* what the call of handle_message leaves in an iteration: its reply is printed;
\* an exception it raises is caught by the loop and printed
Replied(r, line) ==
  /\ conversation_history' = r.conversation_history
  /\ refund_requests' = r.refund_requests
  /\ invoices' = r.invoices
  /\ clock' = tick(strip(line))
  /\ Iterated(IF r.response.kind = "raise" THEN "Exception" ELSE "handle_message", line,
              IF r.response.kind = "raise"
                THEN [kind |-> "error", exc |-> r.response.exc] ELSE r.response)
  /\ UNCHANGED << variant, ai_client, documents >>

\* every other input: response = dispatcher.handle_message(user_input)
Message ==
  /\ main = "input"
  /\ \E line \in MainLines(variant) :
       /\ branch(variant, strip(line)) = "handle_message"
       /\ tick(strip(line)) <= MainTurns
       /\ \/ /\ variant = "cloud"
             /\ \E hex \in Draws(handle_cloud(strip(line), uuid_hex.first, NotCalled).calls,
                                 "uuid4", {uuid_hex.first, uuid_hex.second}, uuid_hex.first),
                   http \in Draws(handle_cloud(strip(line), uuid_hex.first, NotCalled).calls,
                                  "requests.post", HttpOutcomes, NotCalled) :
                  Replied(handle_cloud(strip(line), hex, http), line)
          \/ /\ variant = "openai"
             /\ \E api_intent \in Draws(handle_openai(strip(line), uuid_hex.first, NotCalled,
                                                      NotCalled).calls,
                                        "classifier:generate_response", ApiOutcomes,
                                        NotCalled) :
                  \E hex \in Draws(handle_openai(strip(line), uuid_hex.first, api_intent,
                                                 NotCalled).calls,
                                   "uuid4", {uuid_hex.first, uuid_hex.second},
                                   uuid_hex.first),
                     api_answer \in Draws(handle_openai(strip(line), uuid_hex.first,
                                                        api_intent, NotCalled).calls,
                                          "agent:generate_response", ApiOutcomes,
                                          NotCalled) :
                    Replied(handle_openai(strip(line), hex, api_intent, api_answer), line)

\* main constructs a hybrid client (cloud variant), or an OpenAI client when
\* there is an API key and none otherwise, and the dispatcher over ./docs
InitMain ==
  \/ \E client \in HybridClients : Constructed("cloud", client, <<>>)
  \/ \E client \in Clients("openai") : Constructed("openai", client, <<>>)

NextMain == InputRaises \/ Command \/ SwitchCommand \/ ClearCommand \/ Message

SpecMain == InitMain /\ [][NextMain]_vars
-----------------------------------------------------------------------------
(* The history cap, the empty message, the order of the structured groups.  *)

\* C1: after any sequence of handle_message calls, in both variants,
\* conversation_history holds at most 10 entries; an append to a history of fewer
\* than 10 entries puts the new entry last and keeps the others, and an append
\* that would make it 11 drops exactly the oldest entry: the other entries keep
\* their order and the newest entry is last.
C1_HistoryIsBoundedFifo ==
  [][ /\ Len(conversation_history') <= 10
      /\ (op'.name = "handle_message"
            /\ result'.kind \notin {"enter_question", "clarify", "raise"})
           => /\ conversation_history'[Len(conversation_history')].user_message
                   = op'.user_message
              /\ conversation_history'[Len(conversation_history')].timestamp = clock
              /\ IF Len(conversation_history) < 10
                   THEN /\ Len(conversation_history') = Len(conversation_history) + 1
                        /\ SubSeq(conversation_history', 1, Len(conversation_history))
                             = conversation_history
                 ELSE /\ Len(conversation_history') = 10
                      /\ SubSeq(conversation_history', 1, 9) = Tail(conversation_history)
    ]_vars

\* C1 happens: the cloud dispatcher appends on every message it handles, so a
\* history of ten entries whose oldest is the third message has dropped two.
C1_Witness ==
  /\ variant = "cloud"
  /\ op.name = "handle_message"
  /\ Len(conversation_history) = 10
  /\ conversation_history[1].timestamp = 2
  /\ conversation_history[10].timestamp = 11
  /\ conversation_history[10].user_message = op.user_message

\* C2: handle_message called with an empty or whitespace-only message returns
\* the fixed prompt to enter a question, calls neither the classifier nor a
\* responder nor a backend, and leaves conversation_history, refund_requests and
\* invoices as they were.
C2_EmptyMessageTouchesNothing ==
  [][ (/\ op'.name = "handle_message"
       /\ \A i \in 1..Len(op'.user_message) : isspace(op'.user_message[i]))
        => /\ result'.kind = "enter_question"
           /\ calls' = <<>>
           /\ conversation_history' = conversation_history
           /\ refund_requests' = refund_requests
           /\ invoices' = invoices
    ]_vars

\* C2 happens: a whitespace-only message arrives when the history and the refund
\* requests are not empty.
C2_Witness ==
  /\ op.name = "handle_message"
  /\ op.user_message = msg.blank
  /\ result.kind = "enter_question"
  /\ conversation_history # <<>>
  /\ DOMAIN refund_requests # {}

-----------------------------------------------------------------------------
(* classify_intent.                                                        *)

\* C4: for a message with at least one billing keyword and no technical keyword,
\* classify_intent returns 'billing' with confidence at least 0.8, in both
\* variants, whatever the history and the backend.
C4_BillingOnlyIsBilling ==
  op.name = "classify_intent" =>
    LET s == IF variant = "cloud" THEN scores_cloud[op.question]
             ELSE scores_openai[op.question]
    IN  (s.billing >= 1 /\ s.tech = 0)
          => result.intent = "billing" /\ result.confidence >= 80

\* C4 happens: 'рахунок оплата' is classified by an OpenAI dispatcher that has a
\* backend and whose last turn went to the technical responder.
C4_Witness ==
  /\ op.name = "classify_intent"
  /\ op.question = msg.rahunok_oplata
  /\ variant = "openai"
  /\ ai_client.kind = "openai"
  /\ conversation_history # <<>>
  /\ conversation_history[Len(conversation_history)].agent = "technical"
  /\ result.intent = "billing"
  /\ result.confidence = 90

\* C5 as stated: when one keyword score is strictly greater than the other,
\* classify_intent returns the intent of the greater score, with confidence 0.8
\* in the cloud variant and 0.9 in the OpenAI variant.
C5_Original ==
  op.name = "classify_intent" =>
    LET s == IF variant = "cloud" THEN scores_cloud[op.question]
             ELSE scores_openai[op.question]
    IN  s.tech # s.billing
          => /\ result.intent = IF s.tech > s.billing THEN "technical" ELSE "billing"
             /\ result.confidence = IF variant = "cloud" THEN 80 ELSE 90

\* C5, amended: in the cloud variant a strictly greater score gives its intent
\* with confidence 0.8. In the OpenAI variant a score more than twice the other
\* gives its intent with confidence 0.9; a score that is greater but not more
\* than twice the other is handled as a tie: by the backend when there is one,
\* else by the last history entry's agent with confidence 0.7, else 'billing'
\* with confidence 0.5.
C5_GreaterScoreWins ==
  op.name = "classify_intent" =>
    LET s == IF variant = "cloud" THEN scores_cloud[op.question]
             ELSE scores_openai[op.question]
        greater == IF s.tech > s.billing THEN "technical" ELSE "billing"
        h == conversation_history
    IN  /\ (variant = "cloud" /\ s.tech # s.billing)
             => result.intent = greater /\ result.confidence = 80
        /\ (variant = "openai" /\ (s.tech > 2 * s.billing \/ s.billing > 2 * s.tech))
             => result.intent = greater /\ result.confidence = 90
        /\ (/\ variant = "openai"
            /\ s.tech # s.billing
            /\ ~(s.tech > 2 * s.billing \/ s.billing > 2 * s.tech))
             => IF ai_client.kind = "openai"
                  THEN /\ called(calls, "classifier:generate_response")
                       /\ result.confidence \in {95, 50}
                ELSE IF h # <<>>
                  THEN result.intent = h[Len(h)].agent /\ result.confidence = 70
                ELSE result.intent = "billing" /\ result.confidence = 50

\* C5 happens: 'мережа інтернет оплата' (two technical keywords, one billing
\* keyword) is classified by an OpenAI dispatcher with no backend and no history:
\* the greater score is not more than twice the other.
C5_Witness ==
  /\ op.name = "classify_intent"
  /\ op.question = msg.tech2_billing1
  /\ variant = "openai"
  /\ ai_client.kind = "none"
  /\ conversation_history = <<>>
  /\ scores_openai[op.question] = [tech |-> 2, billing |-> 1]
  /\ result.intent = "billing"
  /\ result.confidence = 50

\* C6 as stated: when the two scores are equal (both zero included) and no
\* external classifier is configured, classify_intent returns the previous turn's
\* intent (OpenAI variant with a non-empty history) or a fixed default intent
\* (otherwise), and the confidence is 0.5.
C6_Original ==
  (op.name = "classify_intent" /\ (variant = "cloud" \/ ai_client.kind = "none")) =>
    LET s == IF variant = "cloud" THEN scores_cloud[op.question]
             ELSE scores_openai[op.question]
        h == conversation_history
    IN  s.tech = s.billing
          => /\ result.intent =
                  IF variant = "openai" /\ h # <<>> THEN h[Len(h)].agent
                  ELSE IF variant = "openai" THEN "billing" ELSE "technical"
             /\ result.confidence = 50

\* C6, amended: when the two scores are equal (both zero included) and no
\* external classifier is configured, the OpenAI variant with a non-empty history
\* returns the previous turn's intent with confidence 0.7; otherwise
\* classify_intent returns the fixed default ('billing' in the OpenAI variant,
\* 'technical' in the cloud variant) with confidence 0.5.
C6_TiePolicy ==
  (op.name = "classify_intent" /\ (variant = "cloud" \/ ai_client.kind = "none")) =>
    LET s == IF variant = "cloud" THEN scores_cloud[op.question]
             ELSE scores_openai[op.question]
        h == conversation_history
    IN  s.tech = s.billing
          => IF variant = "openai" /\ h # <<>>
               THEN result.intent = h[Len(h)].agent /\ result.confidence = 70
             ELSE /\ result.intent = IF variant = "openai" THEN "billing" ELSE "technical"
                  /\ result.confidence = 50

\* C6 happens: 'привіт' (no keyword) is classified by an OpenAI dispatcher with
\* no backend whose last turn went to the technical responder.
C6_Witness ==
  /\ op.name = "classify_intent"
  /\ op.question = msg.hello
  /\ variant = "openai"
  /\ ai_client.kind = "none"
  /\ conversation_history # <<>>
  /\ conversation_history[Len(conversation_history)].agent = "technical"
  /\ result.intent = "technical"
  /\ result.confidence = 70

\* C7: in the OpenAI variant, when the call of the external classifier raises or
\* its answer is neither 'technical' nor 'billing', classify_intent returns
\* (raises nothing) the intent of the tie policy for the present state: the last
\* history entry's agent when the history is not empty, else the fixed default
\* 'billing'.
C7_ClassifierFailureFallsToTiePolicy ==
  (/\ op.name = "classify_intent"
   /\ variant = "openai"
   /\ called(calls, "classifier:generate_response")
   /\ \/ op.api.kind \in {"error", "none"}
      \/ /\ op.api.kind = "content"
         /\ lower(strip(op.api.text)) \notin {valid_intents[1], valid_intents[2]})
    => /\ result.kind = "intent"
       /\ result.intent =
            IF conversation_history # <<>>
              THEN conversation_history[Len(conversation_history)].agent
            ELSE "billing"

-----------------------------------------------------------------------------
(* HybridAIClient.generate_response.                                       *)

\* C8: whenever the lowercased content of the last user message contains a key
\* of FastLocalClient.responses, the reply is the template of the first such key
\* in the dictionary's order (ip, wifi, компьютер, мережа, драйвер, рахунок,
\* відшкодування) and CloudAIClient.generate_response is not called.
C8_TemplateAnswersWithoutCloud ==
  op.name = "generate_response" =>
    \A i \in 1..Len(response_keys) :
      (/\ contains(response_keys[i], last_user_message(op.messages))
       /\ \A j \in 1..(i - 1) :
            ~contains(response_keys[j], last_user_message(op.messages)))
        => /\ result.kind = "fast_template"
           /\ result.key = response_keys[i]
           /\ ~called(calls, "cloud.generate_response")
           /\ ~called(calls, "requests.post")

\* C8 happens: 'Рахунок і відшкодування' holds the sixth and the seventh key; a
\* client whose cloud is available and has a model answers with the sixth.
C8_Witness ==
  /\ op.name = "generate_response"
  /\ op.messages = billing_messages(msg.refund_invoice)
  /\ ai_client.cloud.available
  /\ ai_client.cloud.selected_model # <<>>
  /\ result.kind = "fast_template"
  /\ result.key = response_keys[6]
  /\ calls = <<"fast.generate_response">>

\* C9: whenever the user's message contains no key of FastLocalClient.responses
\* and the cloud backend is available, CloudAIClient.generate_response is called
\* for the message.
C9_NoTemplateEscalates ==
  (/\ op.name = "generate_response"
   /\ \A i \in 1..Len(response_keys) :
        ~contains(response_keys[i], last_user_message(op.messages))
   /\ ai_client.cloud.available)
    => called(calls, "cloud.generate_response")

\* C10: whenever the cloud backend is consulted and the call fails or gives a
\* string that begins with the cross mark, or the backend is unavailable after
\* no template matched, the reply is the generic 'question not recognized'
\* message; an error string of the backend is never the reply.
C10_FailureGivesNotRecognized ==
  op.name = "generate_response" =>
    /\ result.kind # "cloud_error"
    /\ (/\ called(calls, "cloud.generate_response")
        /\ \/ ~called(calls, "requests.post")
           \/ op.http.kind # "ok"
           \/ strip(op.http.response) = <<>>
           \/ strip(op.http.response)[1] = cross_mark)
         => result.kind = "not_recognized"
    /\ (/\ \A i \in 1..Len(response_keys) :
             ~contains(response_keys[i], last_user_message(op.messages))
        /\ ~ai_client.cloud.available)
         => result.kind = "not_recognized"

-----------------------------------------------------------------------------
(* The document store: search and loading.                                 *)

\* C11: search_documents(query, k) with k >= 0 returns the first k of the stored
\* fragments of score > 0 taken by descending score, fragments of equal score in
\* the order of the store: there is a choice of distinct positions of the store,
\* one per returned entry, all of score > 0, in that order, that no fragment left
\* out should precede; the result has min(k, number of scored fragments) entries,
\* so none when the store is empty.
C11_TopKOfStableRanking ==
  op.name = "search_documents" =>
    LET found    == result.found
        score(i) == doc_score(documents[i].content, op.query)
        scored   == {i \in 1..Len(documents) : score(i) > 0}
        first(i, j) == score(i) > score(j) \/ (score(i) = score(j) /\ i < j)
    IN  /\ Len(found) = IF Cardinality(scored) < op.top_k
                          THEN Cardinality(scored) ELSE op.top_k
        /\ \E at \in [1..Len(found) -> scored] :
             /\ \A n \in 1..Len(found) :
                  /\ found[n].source = documents[at[n]].source
                  /\ found[n].section_id = documents[at[n]].section_id
                  /\ found[n].score = score(at[n])
                  /\ found[n].score > 0
             /\ \A n, m \in 1..Len(found) : n < m => first(at[n], at[m])
             /\ \A j \in scored :
                  (\A n \in 1..Len(found) : at[n] # j)
                    => \A n \in 1..Len(found) : first(at[n], j)

\* C11 happens: of three sections scoring 1, 2, 1 for the query, a search for two
\* returns the one of score 2 and then the first of the two of score 1
C11_Witness ==
  /\ op.name = "search_documents"
  /\ op.query = msg.password
  /\ op.top_k = 2
  /\ Len(documents) = 3
  /\ documents[1].content = section.reset
  /\ documents[3].content = section.recover
  /\ Len(result.found) = 2
  /\ result.found[1].section_id = 3
  /\ result.found[1].score = 2
  /\ result.found[2].section_id = 1
  /\ result.found[2].score = 1

\* C12: the score of a returned fragment is 5 if the lowercased query is a
\* substring of the lowercased fragment, else 0, plus the number of positions of
\* the query's word list that hold a word of more than 3 characters found in the
\* lowercased fragment (a word that stands twice counts twice); a fragment left
\* out of a result that is not full has score 0.
C12_ScoreOfFragment ==
  op.name = "search_documents" =>
    LET found     == result.found
        q         == lower(op.query)
        words     == split(q)
        claimed(c) ==
          (IF contains(q, lower(c)) THEN 5 ELSE 0)
            + Cardinality({w \in 1..Len(words) :
                             Len(words[w]) > 3 /\ contains(words[w], lower(c))})
        same(e, d) == e.source = d.source /\ e.section_id = d.section_id
    IN  /\ \A n \in 1..Len(found) :
             \E i \in 1..Len(documents) :
               same(found[n], documents[i])
                 /\ found[n].score = claimed(documents[i].content)
        /\ Len(found) < op.top_k =>
             \A i \in 1..Len(documents) :
               claimed(documents[i].content) > 0
                 => \E n \in 1..Len(found) : same(found[n], documents[i])

\* C12 happens: the query holds one word twice, and a fragment that holds the
\* word but not the query scores 2
C12_Witness ==
  /\ op.name = "search_documents"
  /\ op.query = search_text.repeated
  /\ Len(result.found) > 0
  /\ result.found[1].score = 2
  /\ \E i \in 1..Len(documents) :
       /\ documents[i].section_id = result.found[1].section_id
       /\ documents[i].source = result.found[1].source
       /\ documents[i].content = section.reset

\* C13: process_document adds to the store, after what it held, the stripped
\* sections of the document whose stripped length exceeds 50, each once and in
\* the order of the document, and no section of stripped length 50 or less; it
\* returns nothing and raises nothing.
C13_OnlyLongSectionsAreStored ==
  [][ op'.name = "process_document" =>
        \A sections \in {re_split(op'.content)} :
          \A added \in {SubSeq(documents', Len(documents) + 1, Len(documents'))} :
            \A long \in {{i \in 1..Len(sections) : Len(strip(sections[i])) > 50}} :
              /\ Len(documents') >= Len(documents)
              /\ SubSeq(documents', 1, Len(documents)) = documents
              /\ Len(added) = Cardinality(long)
              /\ \A n \in 1..Len(added) :
                   /\ added[n].section_id \in long
                   /\ added[n].content = strip(sections[added[n].section_id])
                   /\ added[n].source = op'.source
                   /\ Len(added[n].content) > 50
              /\ \A n, m \in 1..Len(added) :
                   n < m => added[n].section_id < added[m].section_id
              /\ result'.kind = "None"
    ]_vars

\* C13 happens: of the six sections of a file (empty, long, 50 characters, 51
\* characters, short once stripped, long) the second, fourth and sixth are kept
C13_Witness ==
  /\ op.name = "process_document"
  /\ Len(re_split(op.content)) = 6
  /\ Len(documents) = 3
  /\ documents[1] = [content |-> section.faq, source |-> section.source2, section_id |-> 2]
  /\ documents[2] = [content |-> section.exact51, source |-> section.source2,
                     section_id |-> 4]
  /\ documents[3] = [content |-> doc.wifi, source |-> section.source2, section_id |-> 6]

-----------------------------------------------------------------------------
(* Refund requests and invoices.                                           *)

\* C14 as stated: every message handled by handle_refund_request adds exactly
\* one RefundRequest under a new id; its type is premium if the message contains
\* the premium literal, otherwise express if it contains the express literal,
\* otherwise standard; the reply names that type's description, days and fee.
C14_Original ==
  [][ called(calls', "handle_refund_request") =>
        \A type \in {IF contains(billing_text.premium, lower(op'.user_message))
                       THEN "premium"
                     ELSE IF contains(billing_text.express, lower(op'.user_message))
                       THEN "express"
                     ELSE "standard"} :
          /\ result'.id \notin DOMAIN refund_requests
          /\ DOMAIN refund_requests' = DOMAIN refund_requests \cup {result'.id}
          /\ refund_requests'[result'.id].type = type
          /\ result'.description = refund_policy[type].description
          /\ result'.days = refund_policy[type].days
          /\ result'.fee = << refund_policy[type].fee >>
    ]_vars

\* C14, amended: every message handled by handle_refund_request stores exactly
\* one RefundRequest, under the generated id, and leaves every other request and
\* every invoice as it was; its type is premium if the lowercased message
\* contains the premium literal, otherwise express if it contains the express
\* literal or, in the OpenAI variant, the urgent literal, otherwise standard; the
\* reply names that type's description and days, and its fee in the cloud
\* variant and, in the OpenAI variant, when the fee is not zero.
C14_RefundStoredWithType ==
  [][ called(calls', "handle_refund_request") =>
        \A type \in {IF contains(billing_text.premium, lower(op'.user_message))
                       THEN "premium"
                     ELSE IF contains(billing_text.express, lower(op'.user_message))
                              \/ (variant = "openai"
                                    /\ contains(billing_text.urgent,
                                                lower(op'.user_message)))
                       THEN "express"
                     ELSE "standard"} :
          /\ DOMAIN refund_requests' = DOMAIN refund_requests \cup {result'.id}
          /\ \A id \in DOMAIN refund_requests \ {result'.id} :
               refund_requests'[id] = refund_requests[id]
          /\ invoices' = invoices
          /\ refund_requests'[result'.id].type = type
          /\ result'.kind = "refund_created"
          /\ result'.description = refund_policy[type].description
          /\ result'.days = refund_policy[type].days
          /\ result'.fee = IF variant = "cloud" \/ refund_policy[type].fee > 0
                             THEN << refund_policy[type].fee >> ELSE << >>
    ]_vars

\* C14 happens: the refund keyword with the express literal stores a request of
\* type express, and the reply names the fee of 10 percent
C14_Witness ==
  /\ op.name = "handle_message"
  /\ op.user_message = msg.refund_express
  /\ result.kind = "refund_created"
  /\ refund_requests[result.id].type = "express"
  /\ result.fee = << 10 >>
  /\ result.days = 3

\* C15: a status look-up for a message none of whose uppercased tokens is a
\* stored request id (REF-) or a stored invoice id (INV-) returns the "not found"
\* reply and leaves both stores as they were.
C15_LookupMissIsNotFound ==
  [][ ( /\ called(calls', "check_request_status")
        /\ \A words \in {split(upper(op'.user_message))} :
             \A i \in 1..Len(words) :
               /\ ~(startswith(words[i], billing_text.ref)
                      /\ words[i] \in DOMAIN refund_requests)
               /\ ~(startswith(words[i], billing_text.inv)
                      /\ words[i] \in DOMAIN invoices) )
        => /\ result'.kind = "status_not_found"
           /\ refund_requests' = refund_requests
           /\ invoices' = invoices
    ]_vars

\* C15 happens: a request is stored, and the look-up names another id
C15_Witness ==
  /\ op.name = "handle_message"
  /\ op.user_message = msg.status_ref
  /\ called(calls, "check_request_status")
  /\ result.kind = "status_not_found"
  /\ DOMAIN refund_requests = {billing_text.ref \o upper(uuid_hex.second)}

\* C16: in a step that does not generate an id already in a store, every stored
\* refund request and every stored invoice stays, with every field as it was;
\* the steps are messages of every kind, status look-ups, policy replies and the
\* clear command.
C16_EntriesAreNeverChanged ==
  [][ ~( called(calls', "uuid4")
           /\ result'.id \in DOMAIN refund_requests \cup DOMAIN invoices )
        => /\ \A id \in DOMAIN refund_requests :
                id \in DOMAIN refund_requests'
                  /\ refund_requests'[id] = refund_requests[id]
           /\ \A id \in DOMAIN invoices :
                id \in DOMAIN invoices' /\ invoices'[id] = invoices[id]
    ]_vars

\* C16 happens: a stored request is looked up, and its status is the one it was
\* created with
C16_Witness ==
  /\ op.name = "handle_message"
  /\ op.user_message = msg.status_ref
  /\ result.kind = "refund_status"
  /\ result.status = "pending_form"
  /\ refund_requests[result.id].status = "pending_form"

\* C17: every call of handle_refund_request (handle_invoice_request) stores its
\* record under a key that was not in refund_requests (invoices) before, so the
\* store grows by one with every creation.
C17_IdsAreUnique ==
  [][ /\ called(calls', "handle_refund_request")
        => /\ result'.id \notin DOMAIN refund_requests
           /\ Cardinality(DOMAIN refund_requests')
                = Cardinality(DOMAIN refund_requests) + 1
      /\ called(calls', "handle_invoice_request")
        => /\ result'.id \notin DOMAIN invoices
           /\ Cardinality(DOMAIN invoices') = Cardinality(DOMAIN invoices) + 1
    ]_vars

-----------------------------------------------------------------------------
(* No backend, and a backend that fails.                                   *)

\* C18: a dispatcher constructed without a client answers every non-empty
\* message with a reply and raises nothing, whichever responder it selects; a
\* message it gives to the technical responder while the document store is empty
\* is answered with the "no information" message.
C18_NoBackendNeverRaises ==
  (/\ op.name = "handle_message"
   /\ ai_client.kind = "none"
   /\ strip(op.user_message) # <<>>)
    => /\ result.kind # "raise"
       /\ (called(calls, "search_documents") /\ documents = <<>>)
            => result.kind = "no_information"

\* C19: CloudAIClient.generate_response raises nothing; it returns the model's
\* text only for a 200 answer whose stripped text is not empty, given by a client
\* that is available and has a model, and for every other outcome (unavailable,
\* no model, other status, field missing or empty, timeout, any other exception)
\* a string that begins with the cross mark.
C19_CloudClientNeverRaises ==
  op.name = "cloud.generate_response" =>
    /\ result.kind \in {"model_text", "cloud_error"}
    /\ IF /\ ai_client.cloud.available
          /\ ai_client.cloud.selected_model # <<>>
          /\ op.http.kind = "ok"
          /\ strip(op.http.response) # <<>>
         THEN result.kind = "model_text" /\ result.text = strip(op.http.response)
       ELSE result.kind = "cloud_error" /\ result.head = cross_mark

\* C19 happens: the request times out and the client returns an error string
C19_Witness ==
  /\ op.name = "cloud.generate_response"
  /\ op.http.kind = "timeout"
  /\ result.kind = "cloud_error"
  /\ result.head = cross_mark
  /\ calls = <<"cloud.generate_response", "requests.post">>

\* C20: one call of HybridAIClient.generate_response calls
\* CloudAIClient.generate_response at most once and posts at most one request;
\* when the cloud client was called and failed (no model, a status other than
\* 200, a timeout, an exception, an empty answer), the reply is the fast
\* client's reply, the fallback.
C20_FailedCallIsNotRetried ==
  op.name = "generate_response" =>
    /\ Cardinality({i \in 1..Len(calls) : calls[i] = "cloud.generate_response"}) <= 1
    /\ Cardinality({i \in 1..Len(calls) : calls[i] = "requests.post"}) <= 1
    /\ (/\ called(calls, "cloud.generate_response")
        /\ \/ ~called(calls, "requests.post")
           \/ op.http.kind # "ok"
           \/ strip(op.http.response) = <<>>)
         => /\ result = fast_generate_response(op.messages)
            /\ result.kind = "not_recognized"

\* C20 happens: the one request times out, and the reply is the fallback
C20_Witness ==
  /\ op.name = "generate_response"
  /\ op.http.kind = "timeout"
  /\ calls = <<"fast.generate_response", "cloud.generate_response", "requests.post">>
  /\ result.kind = "not_recognized"

-----------------------------------------------------------------------------
(* classify_intent as a function of the two scores.                        *)

\* C21 as stated: classify_intent gives the same (intent, confidence) in any two
\* dispatcher states and for any two messages of the same pair of scores: what
\* it returns now is what it returns for every message of the same scores when
\* the history is empty.
C21_Original ==
  op.name = "classify_intent" =>
    \A other \in Questions :
      IF variant = "cloud"
        THEN scores_cloud[other] = scores_cloud[op.question]
               => /\ classify_intent_cloud(other).intent = result.intent
                  /\ classify_intent_cloud(other).confidence = result.confidence
      ELSE scores_openai[other] = scores_openai[op.question]
             => \A c \in {classify_intent_openai(other, <<>>, ai_client.kind = "openai",
                                                 op.api)} :
                  c.intent = result.intent /\ c.confidence = result.confidence

\* C21, amended: in the cloud variant classify_intent gives the same (intent,
\* confidence) for any two messages of the same pair of scores, in every state.
\* In the OpenAI variant it does so, whatever the history and the backend's
\* answer, when one score is more than twice the other; otherwise the result is
\* the same for two messages of the same scores only under the same last history
\* entry and the same answer of the backend.
C21_DeterministicForClearWinner ==
  op.name = "classify_intent" =>
    \A other \in Questions :
      IF variant = "cloud"
        THEN scores_cloud[other] = scores_cloud[op.question]
               => /\ classify_intent_cloud(other).intent = result.intent
                  /\ classify_intent_cloud(other).confidence = result.confidence
      ELSE scores_openai[other] = scores_openai[op.question]
             => \A s \in {scores_openai[other]} :
                  IF s.tech > 2 * s.billing \/ s.billing > 2 * s.tech
                    THEN \A api \in ApiOutcomes \cup {NotCalled} :
                           \A c \in {classify_intent_openai(other, <<>>,
                                                            ai_client.kind = "openai",
                                                            api)} :
                             c.intent = result.intent /\ c.confidence = result.confidence
                  ELSE \A c \in {classify_intent_openai(other, conversation_history,
                                                        ai_client.kind = "openai",
                                                        op.api)} :
                         c.intent = result.intent /\ c.confidence = result.confidence

\* C21 happens: 'оплата' (one billing keyword, as 'відшкодування експрес') is
\* classified by an OpenAI dispatcher whose last turn went to the technical
\* responder, and is billing with confidence 0.9 all the same
C21_Witness ==
  /\ op.name = "classify_intent"
  /\ variant = "openai"
  /\ op.question = msg.oplata
  /\ scores_openai[msg.refund_express] = scores_openai[msg.oplata]
  /\ conversation_history # <<>>
  /\ conversation_history[Len(conversation_history)].agent = "technical"
  /\ result.intent = "billing"
  /\ result.confidence = 90

-----------------------------------------------------------------------------
(* The model a cloud client selects at construction.                       *)

\* C22: a client constructed over a reachable server selects the first name
\* of the cloud preference list that is in the server's list; when none is,
\* the first listed model whose name contains the first local preference
\* that some listed model contains; when none does, the first listed model;
\* and no model when the list is empty.
C22_SelectionFollowsPreferenceList ==
  (op.name = "init" /\ ai_client.kind = "hybrid" /\ ai_client.cloud.available) =>
    \A available \in {ai_client.cloud.available_models} :
    \A selected \in {ai_client.cloud.selected_model} :
      LET listed(name) == \E j \in 1..Len(available) : available[j] = name
          holds(l, j) == contains(local_models[l], available[j])
          cloud_match == \E i \in 1..Len(cloud_models) : listed(cloud_models[i])
          local_match == \E l \in 1..Len(local_models) :
                           \E j \in 1..Len(available) : holds(l, j)
      IN  /\ cloud_match =>
                \E i \in 1..Len(cloud_models) :
                  /\ selected = cloud_models[i]
                  /\ listed(cloud_models[i])
                  /\ \A k \in 1..(i - 1) : ~listed(cloud_models[k])
          /\ (~cloud_match /\ local_match) =>
                \E l \in 1..Len(local_models) : \E j \in 1..Len(available) :
                  /\ selected = available[j]
                  /\ holds(l, j)
                  /\ \A k \in 1..(j - 1) : ~holds(l, k)
                  /\ \A m \in 1..(l - 1) : \A k \in 1..Len(available) : ~holds(m, k)
          /\ (~cloud_match /\ ~local_match /\ available # <<>>) => selected = available[1]
          /\ available = <<>> => selected = <<>>

\* a server lists a local model, then two cloud models in the reverse of their
\* preference: the client selects the one the preference list names first
C22_Witness ==
  /\ op.name = "init"
  /\ ai_client.kind = "hybrid"
  /\ ai_client.cloud.available
  /\ ai_client.cloud.available_models =
       <<ollama_model.gemma, ollama_model.qwen_cloud, ollama_model.minimax_cloud>>
  /\ ai_client.cloud.selected_model = ollama_model.minimax_cloud
-----------------------------------------------------------------------------
(* The external classifier of the OpenAI variant.                          *)

\* C24: classify_intent of the OpenAI variant calls _classify_with_chatgpt
\* exactly when a backend is configured, neither score is more than twice the
\* other and some score is not zero; and when the backend's answer, stripped
\* and in lower case, is 'technical' or 'billing', the result is that intent
\* with confidence 0.95.
C24_ClassifierOnlyOnAmbiguity ==
  (op.name = "classify_intent" /\ variant = "openai") =>
    \A s \in {scores_openai[op.question]} :
      /\ called(calls, "_classify_with_chatgpt")
           <=> /\ ai_client.kind = "openai"
               /\ ~(s.billing > 2 * s.tech)
               /\ ~(s.tech > 2 * s.billing)
               /\ (s.billing > 0 \/ s.tech > 0)
      /\ (called(calls, "_classify_with_chatgpt") /\ op.api.kind = "content") =>
           \A answer \in {lower(strip(op.api.text))} :
             /\ answer = valid_intents[1]
                  => result.intent = "technical" /\ result.confidence = 95
             /\ answer = valid_intents[2]
                  => result.intent = "billing" /\ result.confidence = 95

\* a question of one billing and one technical keyword goes to the backend,
\* whose ' Billing ' makes the result (billing, 0.95)
C24_Witness ==
  /\ op.name = "classify_intent"
  /\ variant = "openai"
  /\ scores_openai[op.question].billing > 0
  /\ scores_openai[op.question].tech > 0
  /\ called(calls, "_classify_with_chatgpt")
  /\ op.api.kind = "content"
  /\ op.api.text = gpt.billing_cased
  /\ result.intent = "billing"
  /\ result.confidence = 95

\* C25: in the OpenAI variant without a backend, when the history is not
\* empty, handle_message of a message that is not empty or blank does not
\* answer with the clarification prompt and appends one entry, for that
\* message, to the history; and when neither score is more than twice the
\* other, the entry's agent is the agent of the entry that was last before.
C25_HistoryCarriesTheRoute ==
  [][(/\ variant = "openai"
      /\ ai_client.kind = "none"
      /\ conversation_history # <<>>
      /\ op'.name = "handle_message"
      /\ strip(op'.user_message) # <<>>)
       => \A before \in {conversation_history} : \A after \in {conversation_history'} :
            /\ result'.kind # "clarify"
            /\ after # <<>>
            /\ after = IF Len(before) < history_cap
                         THEN Append(before, after[Len(after)])
                       ELSE Append(Tail(before), after[Len(after)])
            /\ after[Len(after)].user_message = op'.user_message
            /\ after[Len(after)].agent_response = result'
            /\ \A s \in {scores_openai[op'.user_message]} :
                 (~(s.billing > 2 * s.tech) /\ ~(s.tech > 2 * s.billing))
                   => after[Len(after)].agent = before[Len(before)].agent]_vars

\* after a technical question, a look-up that holds no keyword of either list
\* is handled by the technical responder and recorded
C25_Witness ==
  /\ variant = "openai"
  /\ ai_client.kind = "none"
  /\ op.name = "handle_message"
  /\ op.user_message = msg.status_ref
  /\ scores_openai[msg.status_ref] = [tech |-> 0, billing |-> 0]
  /\ Len(conversation_history) = 2
  /\ conversation_history[1].agent = "technical"
  /\ conversation_history[2].agent = "technical"
  /\ conversation_history[2].user_message = msg.status_ref
  /\ result.kind # "clarify"

\* C26: in the OpenAI variant a classification of confidence below 0.6 ends
\* handle_message with the clarification prompt: the prompt comes only with a
\* classification that can be below 0.6, with no call but the classifier's
\* and with the history, the requests and the invoices as they were; every
\* other reply records an entry whose confidence is 0.6 or more; and without
\* a backend, on an empty history, a message holding no keyword leaves the
\* history empty.
C26_LowConfidenceAsksAndKeepsState ==
  [][(/\ variant = "openai"
      /\ op'.name = "handle_message"
      /\ strip(op'.user_message) # <<>>)
       => /\ result'.kind = "clarify"
               => /\ \E api \in ApiOutcomes \cup {NotCalled} :
                       classify_intent_openai(op'.user_message, conversation_history,
                                              ai_client.kind = "openai", api).confidence < 60
                  /\ \A i \in 1..Len(calls') :
                       calls'[i] \in {"classify_intent", "_classify_with_chatgpt",
                                      "classifier:generate_response"}
                  /\ UNCHANGED << conversation_history, refund_requests, invoices >>
          /\ result'.kind # "clarify"
               => /\ conversation_history' # conversation_history
                  /\ conversation_history'[Len(conversation_history')].confidence >= 60
          /\ (\A api \in ApiOutcomes \cup {NotCalled} :
                classify_intent_openai(op'.user_message, conversation_history,
                                       ai_client.kind = "openai", api).confidence < 60)
               => result'.kind = "clarify"
          /\ (/\ ai_client.kind = "none"
              /\ conversation_history = <<>>
              /\ scores_openai[op'.user_message] = [tech |-> 0, billing |-> 0])
               => conversation_history' = <<>>]_vars

\* a question of one billing and one technical keyword, a backend whose answer
\* is neither intent: the user is asked to clarify and nothing is recorded
C26_Witness ==
  /\ variant = "openai"
  /\ ai_client.kind = "openai"
  /\ op.name = "handle_message"
  /\ scores_openai[op.user_message] = [tech |-> 1, billing |-> 1]
  /\ called(calls, "_classify_with_chatgpt")
  /\ result.kind = "clarify"
  /\ conversation_history = <<>>
  /\ refund_requests = <<>>
  /\ invoices = <<>>
-----------------------------------------------------------------------------
(* Look-ups after a billing turn, and the clear command.                   *)

\* C27: in the OpenAI variant, after a turn of the billing responder, a
\* message of a status keyword followed by a stored id, holding no refund,
\* invoice or policy keyword and no technical keyword, is handled by the
\* billing responder, which answers with the stored status of that id, and
\* the requests and the invoices stay as they were.
C27_StatusLookUpFollowsBillingTurn ==
  [][(/\ variant = "openai"
      /\ conversation_history # <<>>
      /\ conversation_history[Len(conversation_history)].agent = "billing"
      /\ op'.name = "handle_message")
       => \A words \in {split(upper(op'.user_message))} :
            (/\ Len(words) = 2
             /\ \E i \in 1..Len(structured_words.status) :
                  lower(words[1]) = structured_words.status[i]
             /\ words[2] \in DOMAIN refund_requests \cup DOMAIN invoices
             /\ ~structured_groups[op'.user_message].refund
             /\ ~structured_groups[op'.user_message].invoice
             /\ ~structured_groups[op'.user_message].policy
             /\ scores_openai[op'.user_message].tech = 0)
              => /\ result'.kind \in {"refund_status", "invoice_status"}
                 /\ result'.id = words[2]
                 /\ result'.status = IF words[2] \in DOMAIN refund_requests
                                       THEN refund_requests[words[2]].status
                                     ELSE invoices[words[2]].status
                 /\ conversation_history'[Len(conversation_history')].agent = "billing"
                 /\ called(calls', "check_request_status")
                 /\ UNCHANGED << refund_requests, invoices >>]_vars

\* an invoice is created, then looked up by its id
C27_Witness ==
  /\ variant = "openai"
  /\ op.name = "handle_message"
  /\ op.user_message = msg.status_inv
  /\ Len(conversation_history) = 2
  /\ conversation_history[1].agent = "billing"
  /\ conversation_history[2].agent = "billing"
  /\ DOMAIN invoices = {split(upper(msg.status_inv))[2]}
  /\ result.kind = "invoice_status"
  /\ result.id = split(upper(msg.status_inv))[2]
  /\ refund_requests = <<>>

\* C28: the clear command empties the history and leaves the requests, the
\* invoices, the documents and the client with its selected model as they
\* were, so the look-up of every stored id (the OpenAI variant has one) answers
\* as before; and the history never holds more than ten entries, before or
\* after a clear.
C28_ClearEmptiesOnlyTheHistory ==
  [][/\ op'.name = "clear"
          => /\ conversation_history' = <<>>
             /\ UNCHANGED << variant, ai_client, documents, refund_requests, invoices >>
             /\ variant = "openai"
                  => \A id \in DOMAIN refund_requests \cup DOMAIN invoices :
                       status_response(id, refund_requests', invoices')
                         = status_response(id, refund_requests, invoices)
     /\ Len(conversation_history') <= history_cap]_vars

\* a refund request is created by a dispatcher that holds documents and a
\* selected model, then the history is cleared
C28_Witness ==
  /\ op.name = "clear"
  /\ conversation_history = <<>>
  /\ refund_requests # <<>>
  /\ documents # <<>>
  /\ ai_client.kind = "hybrid"
  /\ ai_client.cloud.selected_model # <<>>
-----------------------------------------------------------------------------
(* The selected model of the cloud client.                                 *)

\* C29: the selected model of a cloud client is None or one of its available
\* models, at construction and after every call; switch_model returns True
\* exactly when the client is available and the name is one of its available
\* models, and then the name is the selected model; otherwise it returns False
\* and the client is as it was; the list of available models never changes.
C29_SelectedModelIsAvailable ==
  [][ai_client.kind = "hybrid" =>
       \A cloud \in {ai_client.cloud} : \A after \in {ai_client'.cloud} :
         LET listed(c, name) ==
               \E j \in 1..Len(c.available_models) : c.available_models[j] = name
         IN  /\ cloud.selected_model = <<>> \/ listed(cloud, cloud.selected_model)
             /\ after.selected_model = <<>> \/ listed(after, after.selected_model)
             /\ after.available_models = cloud.available_models
             /\ op'.name = "switch_model" =>
                  /\ result'.value = (cloud.available /\ listed(cloud, op'.model_name))
                  /\ result'.value => after.selected_model = op'.model_name
                  /\ ~result'.value => after = cloud
             /\ op'.name # "switch_model" => after = cloud]_vars

\* a client that selected a cloud model at construction is switched to a local
\* model of its list
C29_Witness ==
  /\ op.name = "switch_model"
  /\ op.model_name = ollama_model.gemma
  /\ result.value
  /\ ai_client.cloud.selected_model = ollama_model.gemma
  /\ select_cloud_model(ai_client.cloud.available_models) = ollama_model.minimax_cloud

\* C30: HybridAIClient.generate_response raises nothing; with a cloud client
\* that is available and has no selected model, the cloud client, when it is
\* called, answers with its error string without posting a request, and the
\* reply is the fast client's reply, the 'not recognized' fallback.
C30_NoModelGivesFastReply ==
  op.name = "generate_response" =>
    /\ result.kind # "raise"
    /\ (ai_client.cloud.available /\ ai_client.cloud.selected_model = <<>>)
         => /\ result = fast_generate_response(op.messages)
            /\ ~called(calls, "requests.post")
            /\ result.head = question_mark
                 => /\ calls = <<"fast.generate_response", "cloud.generate_response">>
                    /\ result.kind = "not_recognized"

\* the server answered with an empty list of models: the cloud client is
\* called, posts nothing, and the fast client's fallback is the reply
C30_Witness ==
  /\ op.name = "generate_response"
  /\ ai_client.cloud.available
  /\ ai_client.cloud.available_models = <<>>
  /\ ai_client.cloud.selected_model = <<>>
  /\ calls = <<"fast.generate_response", "cloud.generate_response">>
  /\ result.kind = "not_recognized"
-----------------------------------------------------------------------------
(* The read loop of main.                                                  *)

\* C23: the read loop of main ends only on a quit word (quit, exit and their
\* Ukrainian form) or on KeyboardInterrupt: after every other iteration, one
\* in which an exception was raised and printed among them, the loop is at
\* input() again; and before the loop has ended it can always read on.
C23_LoopEndsOnlyOnQuitOrInterrupt ==
  /\ [](main = "input" => ENABLED InputRaises)
  /\ [][/\ main = "input"
        /\ op'.name = "main"
        /\ main' = "ended"
             <=> \/ op'.event = "KeyboardInterrupt"
                 \/ /\ op'.event = "quit"
                    /\ lower(strip(op'.line))
                         \in {command.quit, command.exit, command.leave}
        /\ op'.event = "Exception" => main' = "input" /\ result'.kind = "error"]_vars

\* input() raised EOFError: the error was printed and the loop reads again,
\* with the turns handled before still in the history
C23_Witness ==
  /\ op.name = "main"
  /\ op.event = "Exception"
  /\ result.kind = "error"
  /\ main = "input"
  /\ conversation_history # <<>>
====
